---- MODULE Spec2Model ----
(***************************************************************************)
(* Model of templates/chart_script.js (pypi-downloads-chart): the CSV      *)
(* loader with its candidate fallback and its line parser, the trends      *)
(* chart with its time range controls and its tooltip, the version         *)
(* comparison chart with its selection, the installer and country pie      *)
(* charts, and the data preview and download handlers.                     *)
(*                                                                         *)
(* Time.  Every timestamp of the program is an epoch-millisecond value     *)
(* that is a multiple of 1000 (dates at midnight, 'T23:59:59', whole-hour  *)
(* UTC offsets, whole-day presets).  The model counts SECONDS since        *)
(* 2024-01-01T00:00:00Z, so 1000*60*60*24 ms is SecPerDay here.            *)
(* A 'YYYY-MM-DD' string is modelled by its day number, 2024-01-01 = 0;    *)
(* the empty input value is NoDate, an unparseable date is BadDate.        *)
(***************************************************************************)
EXTENDS Integers, Sequences, FiniteSets, TLC

VARIABLES
    availableCsvFiles,  \* window.availableCsvFiles
    outcome,            \* per file: "untried", "ok" or "fail" (the server's answer)
    ld,                 \* the tryLoadRecentCsv call under observation
    tzOffset,           \* browser's UTC offset in hours (local = UTC + tzOffset)
    trendsCsv,          \* rows the trends load resolves with
    trendsPc,           \* position of initTrendsChart
    allTrendsData,
    originalTimeRange,
    trendsChart,
    trendsDom,          \* loading/error/chart/controls display, startDate/endDate values
    alertMsg,           \* alert() shown by the last handler, "none" otherwise
    lastOp,             \* the last handler that ran, with its inputs
    versionCsv,         \* rows the versions load resolves with
    versionPc,          \* position of initVersionChart
    versionData,
    availableVersions,
    checkboxes,         \* #versionCheckboxes inputs, in document order
    versionChart,
    versionDom,         \* loading/error/chart/controls/section display
    versionLog,         \* last console.log message of initVersionChart
    lastVersionOp,      \* the last handler of the version chart that ran
    installerCsv,       \* rows the installer load resolves with
    installerPc,        \* position of initInstallerChart
    installerChart,
    installerDom,       \* loading/error/chart/actions display, data count
    countryCsv,         \* rows the country load resolves with
    countryPc,          \* position of initCountryChart
    countryChart,
    countryDom,         \* loading/error/chart/actions display, data count
    pendingLoads,       \* tryLoadRecentCsv calls of preview/download handlers in flight
    previewModal,       \* #dataPreviewModal: null while closed
    downloadedFile,     \* the file the last handler step saved, null if none
    lastExport,         \* the last preview/download handler step that ran
    focus,              \* the feed whose requests are answered and whose buttons are used
    csvText,            \* the text of a fetched CSV file, as its lines
    csvData,            \* the rows loadCsvData made of csvText, null before
    trendsTooltip       \* the trends chart's tooltip: hovered index and afterLabel text

loaderVars  == <<availableCsvFiles, outcome, ld>>
trendsVars  == <<tzOffset, trendsCsv, trendsPc, allTrendsData, originalTimeRange,
                 trendsChart, trendsDom, alertMsg, lastOp>>
versionVars == <<versionCsv, versionPc, versionData, availableVersions,
                 checkboxes, versionChart, versionDom, versionLog, lastVersionOp>>
pieVars     == <<installerCsv, installerPc, installerChart, installerDom,
                 countryCsv, countryPc, countryChart, countryDom>>
exportVars  == <<pendingLoads, previewModal, downloadedFile, lastExport, focus>>
parseVars   == <<csvText, csvData>>
vars == <<loaderVars, trendsVars, versionVars, pieVars, exportVars, parseVars,
          trendsTooltip>>

----------------------------------------------------------------------------
(* Bounds *)

MaxFiles == 3      \* length of window.availableCsvFiles
MaxStamp == 2      \* timestamped files per feed are stamped 1..MaxStamp
MaxRows  == 3      \* rows of the trends CSV
MaxVRows == 4      \* rows of the versions CSV
MaxBuildRows == 3  \* rows handed to the series builder
MaxLines == 3      \* lines of a CSV text after its header line
MaxPending == 2    \* loads started by preview/download handlers that are in flight

Null == <<>>           \* null: an absent object is the empty sequence,
Some(v) == <<v>>       \* a present one a sequence of one element

----------------------------------------------------------------------------
(* CSV loader: loadCsvData, tryLoadRecentCsv                               *)

Feeds == {"trends", "versions", "installer", "country"}

\* A CSV text is the sequence of its lines (the parts between '\n'); a line
\* is a sequence of tokens: a comma, a white-space character, or a word.
WhiteSpace == {" ", "\r"}

\* String.prototype.trim on a sequence of tokens
RECURSIVE Trim(_)
Trim(ts) ==
    IF ts = <<>> THEN <<>>
    ELSE IF Head(ts) \in WhiteSpace THEN Trim(Tail(ts))
    ELSE IF ts[Len(ts)] \in WhiteSpace THEN Trim(SubSeq(ts, 1, Len(ts) - 1))
    ELSE ts

\* line.split(',')
RECURSIVE SplitComma(_)
SplitComma(line) ==
    LET commas == { i \in 1..Len(line) : line[i] = "," }
    IN  IF commas = {} THEN <<line>>
        ELSE LET k == CHOOSE i \in commas : \A j \in commas : i <= j
             IN  <<SubSeq(line, 1, k - 1)>> \o SplitComma(SubSeq(line, k + 1, Len(line)))

\* csvText.trim().split('\n'): white space and line breaks at both ends of
\* the text go, an empty text is one empty line.
RECURSIVE TrimSplitLines(_)
TrimSplitLines(text) ==
    IF text = <<>> THEN <<<<>>>>
    ELSE IF Trim(Head(text)) = <<>> /\ Len(text) > 1 THEN TrimSplitLines(Tail(text))
    ELSE IF Trim(text[Len(text)]) = <<>> /\ Len(text) > 1
         THEN TrimSplitLines(SubSeq(text, 1, Len(text) - 1))
    ELSE IF Len(text) = 1 THEN <<Trim(text[1])>>
    ELSE LET first == Head(text)
             last == text[Len(text)]
             lead == CHOOSE i \in 1..Len(first) :
                        first[i] \notin WhiteSpace /\ \A j \in 1..(i - 1) : first[j] \in WhiteSpace
             trail == CHOOSE i \in 1..Len(last) :
                        last[i] \notin WhiteSpace
                        /\ \A j \in (i + 1)..Len(last) : last[j] \in WhiteSpace
         IN  <<SubSeq(first, lead, Len(first))>>
                \o SubSeq(text, 2, Len(text) - 1)
                \o <<SubSeq(last, 1, trail)>>

\* Variant: a line with more values than headers is kept.
CountMatches_atLeast(values, headers) == Len(values) >= Len(headers)

\* values.length !== headers.length: skip
CountMatches(values, headers) == Len(values) = Len(headers)

\* row[header.trim()] = values[index]?.trim(), for each header in turn; a
\* repeated header keeps the value of its last column.
MakeRow(headers, values) ==
    LET keys == { Trim(headers[i]) : i \in 1..Len(headers) }
        LastColumn(k) == CHOOSE i \in 1..Len(headers) :
                            /\ Trim(headers[i]) = k
                            /\ \A j \in (i + 1)..Len(headers) : Trim(headers[j]) # k
    IN  [k \in keys |-> IF LastColumn(k) <= Len(values)
                        THEN Trim(values[LastColumn(k)]) ELSE <<>>]

\* row.name is truthy: the column exists and its value is not empty.
Truthy(row, name) == <<name>> \in DOMAIN row /\ row[<<name>>] # <<>>

\* The test for installer, country or download trend data.
KnownShape(row) ==
    \/ Truthy(row, "installer_name") /\ Truthy(row, "download_count")
    \/ Truthy(row, "country_code") /\ Truthy(row, "download_count")
    \/ Truthy(row, "download_date") /\ Truthy(row, "daily_downloads")

\* The loop over lines[1..] of loadCsvData.
RECURSIVE ParseLines(_, _)
ParseLines(headers, lines) ==
    IF lines = <<>> THEN <<>>
    ELSE LET line == Trim(Head(lines))
             values == SplitComma(line)
             row == MakeRow(headers, values)
             rest == ParseLines(headers, Tail(lines))
         IN  IF line = <<>> THEN rest
             ELSE IF ~CountMatches(values, headers) THEN rest
             ELSE IF KnownShape(row) THEN <<row>> \o rest
             ELSE rest

\* loadCsvData on the text of the response
ParseCsvText(text) ==
    LET lines == TrimSplitLines(text)
    IN  ParseLines(SplitComma(lines[1]), Tail(lines))

\* loadCsvData after response.text() resolved
LoadCsvData ==
    /\ csvData = Null
    /\ csvData' = Some(ParseCsvText(csvText))
    /\ UNCHANGED csvText

\* A file name is its prefix followed by a timestamp, or by the word
\* 'latest' (stamp 0), and '.csv'.
Prefixes == {"download_by_date_", "download_by_date_all_versions_",
             "installer_stats_30d_", "download_by_country_30d_"}
FileNames == [prefix : Prefixes, stamp : 0..MaxStamp]

\* String.prototype.includes on a file name, for the substrings the code asks.
Includes(f, sub) ==
    CASE sub = "download_by_date_" ->
            f.prefix \in {"download_by_date_", "download_by_date_all_versions_"}
      [] sub = "all_versions" -> f.prefix = "download_by_date_all_versions_"
      [] sub = "download_by_date_all_versions_" ->
            f.prefix = "download_by_date_all_versions_"
      [] sub = "installer_stats_30d_" -> f.prefix = "installer_stats_30d_"
      [] sub = "download_by_country_30d_" -> f.prefix = "download_by_country_30d_"
      [] sub = "latest" -> f.stamp = 0

\* The 'latest' file of a feed.
LatestFilename(pattern) ==
    CASE pattern = "trends"    -> [prefix |-> "download_by_date_", stamp |-> 0]
      [] pattern = "versions"  -> [prefix |-> "download_by_date_all_versions_", stamp |-> 0]
      [] pattern = "installer" -> [prefix |-> "installer_stats_30d_", stamp |-> 0]
      [] pattern = "country"   -> [prefix |-> "download_by_country_30d_", stamp |-> 0]

RelevantFilter(pattern, f) ==
    CASE pattern = "trends" ->
            /\ Includes(f, "download_by_date_")
            /\ ~Includes(f, "all_versions")
            /\ ~Includes(f, "latest")
      [] pattern = "versions" ->
            Includes(f, "download_by_date_all_versions_") /\ ~Includes(f, "latest")
      [] pattern = "installer" ->
            Includes(f, "installer_stats_30d_") /\ ~Includes(f, "latest")
      [] pattern = "country" ->
            Includes(f, "download_by_country_30d_") /\ ~Includes(f, "latest")

\* a.localeCompare(b) < 0 on file names: the prefixes in alphabetical
\* order, then the stamps, digits before the word 'latest'.
PrefixRank(p) ==
    CASE p = "download_by_country_30d_" -> 1
      [] p = "download_by_date_" -> 2
      [] p = "download_by_date_all_versions_" -> 3
      [] p = "installer_stats_30d_" -> 4
StampRank(n) == IF n = 0 THEN MaxStamp + 2 ELSE n
\* Variant: the comparator with its arguments exchanged, a.localeCompare(b).
NameBefore_ascending(a, b) ==
    \/ PrefixRank(b.prefix) < PrefixRank(a.prefix)
    \/ PrefixRank(a.prefix) = PrefixRank(b.prefix) /\ StampRank(b.stamp) < StampRank(a.stamp)

NameBefore(a, b) ==
    \/ PrefixRank(a.prefix) < PrefixRank(b.prefix)
    \/ PrefixRank(a.prefix) = PrefixRank(b.prefix) /\ StampRank(a.stamp) < StampRank(b.stamp)

\* relevantFiles.sort((a, b) => b.localeCompare(a)): stable, descending.
RECURSIVE InsertDesc(_, _)
InsertDesc(sorted, f) ==
    IF sorted = <<>> THEN <<f>>
    ELSE IF NameBefore(Head(sorted), f)
         THEN <<f>> \o sorted
         ELSE <<Head(sorted)>> \o InsertDesc(Tail(sorted), f)

RECURSIVE SortDesc(_)
SortDesc(s) ==
    IF s = <<>> THEN <<>>
    ELSE InsertDesc(SortDesc(SubSeq(s, 1, Len(s) - 1)), s[Len(s)])

RelevantFiles(pattern, files) ==
    LET Keep(f) == RelevantFilter(pattern, f)
    IN  SortDesc(SelectSeq(files, Keep))

\* The rows a file parses to: each file has its own content.
FileContent(f) == [file |-> f]

NoCall == [pc |-> "idle", pattern |-> "trends", queue |-> <<>>,
           fetched |-> <<>>, result |-> <<>>]

\* tryLoadRecentCsv(pattern) up to its first await: loadCsvData(latestFilename)
StartLoad(pattern) ==
    /\ ld.pc = "idle"
    /\ ld' = [pc |-> "latest", pattern |-> pattern, queue |-> <<>>,
              fetched |-> <<>>, result |-> <<>>]
    /\ UNCHANGED <<availableCsvFiles, outcome>>

\* Variant: the loop gives up before the last timestamped file.
AfterFailure_skipLast(queue) == IF Len(queue) <= 1 THEN "failed" ELSE "files"

\* Where the call goes after a failed fetch: on to the next timestamped file,
\* or to the throw after the loop when none is left.
AfterFailure(queue) == IF queue = <<>> THEN "failed" ELSE "files"

\* The answer of fetch(filename): a file answers the same way each time.
FetchAnswers(f) == IF outcome[f] = "untried" THEN {"ok", "fail"} ELSE {outcome[f]}

\* await loadCsvData(latestFilename) settles.
LoadLatest ==
    /\ ld.pc = "latest"
    /\ LET f == LatestFilename(ld.pattern) IN
       \E ans \in FetchAnswers(f) :
          /\ outcome' = [outcome EXCEPT ![f] = ans]
          /\ IF ans = "ok"
             THEN ld' = [ld EXCEPT !.pc = "done", !.fetched = Append(@, f),
                                   !.result = <<FileContent(f)>>]
             ELSE LET rel == RelevantFiles(ld.pattern, availableCsvFiles) IN
                  ld' = [ld EXCEPT !.pc = AfterFailure(rel),
                                   !.fetched = Append(@, f),
                                   !.queue = rel]
    /\ UNCHANGED availableCsvFiles

\* await loadCsvData(filename) settles, for the next timestamped file.
LoadNextFile ==
    /\ ld.pc = "files"
    /\ LET f == Head(ld.queue) IN
       \E ans \in FetchAnswers(f) :
          /\ outcome' = [outcome EXCEPT ![f] = ans]
          /\ IF ans = "ok"
             THEN ld' = [ld EXCEPT !.pc = "done", !.fetched = Append(@, f),
                                   !.result = <<FileContent(f)>>]
             ELSE ld' = [ld EXCEPT !.pc = AfterFailure(Tail(ld.queue)),
                                   !.fetched = Append(@, f),
                                   !.queue = Tail(@)]
    /\ UNCHANGED availableCsvFiles

----------------------------------------------------------------------------
(* Dates and numbers                                                       *)

NoExport == [op |-> "none", feed |-> "none", purpose |-> "none", shown |-> Null]
NoOp == [op |-> "none", before |-> Null]

SecPerDay == 86400     \* 1000 * 60 * 60 * 24 ms
SecPerHour == 3600
NoDate == -2           \* value of an empty date input
BadDate == -1          \* a download_date that Date cannot parse
PosInf == 1000000000   \* Infinity, the result of Math.min() of no argument
NegInf == -1000000000  \* -Infinity, the result of Math.max() of no argument

\* new Date('YYYY-MM-DD').getTime(): a date-only string is UTC midnight;
\* NaN (no element) for an unparseable string.
parseDate(dateString) ==
    IF dateString = BadDate \/ dateString = NoDate THEN <<>>
    ELSE <<dateString * SecPerDay>>

\* new Date('YYYY-MM-DDT23:59:59').getTime(): a date-time string without
\* offset is local time.
ParseLocalEndOfDay(dateString) ==
    dateString * SecPerDay + 23 * SecPerHour + 59 * 60 + 59 - tzOffset * SecPerHour

\* new Date(t).toISOString().split('T')[0]: the UTC calendar day of t.
ToISODate(t) == t \div SecPerDay

\* A text of 400 digits: its value is above the largest double.
Digits400 == "9999...9 (400 digits)"

\* parseInt of the texts that occur in the daily_downloads column and in
\* the segments of a version; NaN is the empty sequence, Infinity is PosInf.
parseInt(text) ==
    CASE text = "0"   -> <<0>>
      [] text = "1"   -> <<1>>
      [] text = "2"   -> <<2>>
      [] text = "3"   -> <<3>>
      [] text = "7"   -> <<7>>
      [] text = "9"   -> <<9>>
      [] text = "10"  -> <<10>>
      [] text = "12x" -> <<12>>
      [] text = Digits400 -> <<PosInf>>
      [] text = "abc" -> <<>>
      [] OTHER        -> <<>>

RECURSIVE MathMin(_)
MathMin(xs) ==
    IF xs = <<>> THEN PosInf
    ELSE LET m == MathMin(Tail(xs)) IN IF Head(xs) < m THEN Head(xs) ELSE m

RECURSIVE MathMax(_)
MathMax(xs) ==
    IF xs = <<>> THEN NegInf
    ELSE LET m == MathMax(Tail(xs)) IN IF Head(xs) > m THEN Head(xs) ELSE m

Xs(points) == [i \in 1..Len(points) |-> points[i].x]

----------------------------------------------------------------------------
(* Series builder: rows to sorted points                                   *)

\* Variant: a point is placed before the points of the same x.
RECURSIVE InsertByX_beforeEqual(_, _)
InsertByX_beforeEqual(sorted, p) ==
    IF sorted = <<>> THEN <<p>>
    ELSE IF p.x <= Head(sorted).x
         THEN <<p>> \o sorted
         ELSE <<Head(sorted)>> \o InsertByX_beforeEqual(Tail(sorted), p)

\* .sort((a, b) => a.x - b.x): stable, ascending by x.
RECURSIVE InsertByX(_, _)
InsertByX(sorted, p) ==
    IF sorted = <<>> THEN <<p>>
    ELSE IF p.x < Head(sorted).x
         THEN <<p>> \o sorted
         ELSE <<Head(sorted)>> \o InsertByX(Tail(sorted), p)

RECURSIVE SortByX(_)
SortByX(points) ==
    IF points = <<>> THEN <<>>
    ELSE InsertByX(SortByX(SubSeq(points, 1, Len(points) - 1)), points[Len(points)])

\* rows -> filter -> map -> filter -> sort, as in initTrendsChart and
\* updateVersionChart.
RECURSIVE MapRows(_)
MapRows(rows) ==
    IF rows = <<>> THEN <<>>
    ELSE LET row == Head(rows)
             date == parseDate(row.download_date)
             downloads == parseInt(row.daily_downloads)
         IN  IF date = <<>> \/ downloads = <<>>
             THEN MapRows(Tail(rows))
             ELSE <<[x |-> date[1], y |-> downloads[1]]>> \o MapRows(Tail(rows))

BuildSeries(rows) == SortByX(MapRows(rows))

----------------------------------------------------------------------------
(* Trends chart and its time range controls                                *)

\* The label format formatDate(date, dataRange) chooses.
formatDate(dataRange) ==
    LET rangeSecs == dataRange.max - dataRange.min   \* rangeDays * SecPerDay
    IN  IF rangeSecs > 180 * SecPerDay THEN "month+year"
        ELSE IF rangeSecs > 30 * SecPerDay THEN "month+day"
        ELSE "month+day+year"

\* The range the tick callback hands to formatDate.
TickRange(chartData) == [min |-> MathMin(Xs(chartData)), max |-> MathMax(Xs(chartData))]

\* new Chart(ctx, {...}) of initTrendsChart
NewTrendsChart(chartData) ==
    [data  |-> chartData,
     xmin  |-> MathMin(Xs(chartData)),
     xmax  |-> MathMax(Xs(chartData)),
     ticks |-> TickRange(chartData)]

\* Variant: the data is replaced, the axis range is left as it was.
updateTrendsChart_keepAxis(chart, chartData) ==
    IF chart = Null \/ Len(chartData) = 0 THEN chart
    ELSE Some([data  |-> chartData,
               xmin  |-> chart[1].xmin,
               xmax  |-> chart[1].xmax,
               ticks |-> TickRange(chartData)])

\* Variant: the tick callback is not replaced.
updateTrendsChart_keepTicks(chart, chartData) ==
    IF chart = Null \/ Len(chartData) = 0 THEN chart
    ELSE Some([data  |-> chartData,
               xmin  |-> MathMin(Xs(chartData)),
               xmax  |-> MathMax(Xs(chartData)),
               ticks |-> chart[1].ticks])

updateTrendsChart(chart, chartData) ==
    IF chart = Null \/ Len(chartData) = 0 THEN chart
    ELSE LET minTime == MathMin(Xs(chartData))
             maxTime == MathMax(Xs(chartData))
         IN  Some([data  |-> chartData,
                   xmin  |-> minTime,
                   xmax  |-> maxTime,
                   ticks |-> [min |-> minTime, max |-> maxTime]])

InRange(point, startTime, endTime) == point.x >= startTime /\ point.x <= endTime

\* startTime >= endTime of updateTimeRange
RangeInverted(startTime, endTime) == startTime >= endTime

\* updateTimeRange() reading the two date inputs: the chart and the alert
\* it leaves.
updateTimeRange(startDate, endDate, chart, data) ==
    IF startDate = NoDate \/ endDate = NoDate
    THEN [chart |-> chart, alert |-> "Please select both start and end dates"]
    ELSE LET startTime == parseDate(startDate)[1]
             endTime == ParseLocalEndOfDay(endDate)
             Keep(point) == InRange(point, startTime, endTime)
             filteredData == SelectSeq(data, Keep)
         IN  IF RangeInverted(startTime, endTime)
             THEN [chart |-> chart, alert |-> "Start date must be before end date"]
             ELSE IF Len(filteredData) = 0
             THEN [chart |-> chart,
                   alert |-> "No data available for the selected time range"]
             ELSE [chart |-> updateTrendsChart(chart, filteredData), alert |-> "none"]

PresetNames == {"1month", "3months", "6months", "1year"}
PresetDays(preset) ==
    CASE preset = "1month"  -> 30
      [] preset = "3months" -> 90
      [] preset = "6months" -> 180
      [] preset = "1year"   -> 365

Max2(a, b) == IF a > b THEN a ELSE b

\* Variant: the start is not clamped to the start of the data.
PresetStart_noClamp(preset, range) == range.max - PresetDays(preset) * SecPerDay

\* startTime of setPresetRange
PresetStart(preset, range) ==
    Max2(range.max - PresetDays(preset) * SecPerDay, range.min)

\* Number.prototype.toFixed(1) of n / d * 100 for integers n and d > 0, in
\* tenths: the nearest tenth, a half away from zero.
PercentTenths(n, d) ==
    IF n >= 0 THEN (2000 * n + d) \div (2 * d)
    ELSE -((2000 * (-n) + d) \div (2 * d))

\* The afterLabel callback of the tooltip for the point of index
\* currentIndex (from 1) of the displayed data: null for the first point,
\* else the text of the change against the point before.
afterLabel(data, currentIndex) ==
    IF currentIndex > 1
    THEN LET current == data[currentIndex].y
             previous == data[currentIndex - 1].y
         IN  IF previous # 0
             THEN LET change == PercentTenths(current - previous, previous)
                  IN  Some([text |-> "percent", tenths |-> change, plus |-> change >= 0])
             ELSE IF current > previous
             THEN Some([text |-> "+Infinity% from previous day"])
             ELSE IF current < previous
             THEN Some([text |-> "-Infinity% from previous day"])
             ELSE Some([text |-> "NaN% from previous day"])
    ELSE Null

\* The pointer rests on the point of index i of the trends chart.
HoverTrendsPoint(i) ==
    /\ trendsChart # Null
    /\ i \in 1..Len(trendsChart[1].data)
    /\ trendsTooltip' = Some([index |-> i, afterLabel |-> afterLabel(trendsChart[1].data, i)])
    /\ UNCHANGED trendsVars

\* initTrendsChart up to its await
InitTrendsStart ==
    /\ trendsPc = "start"
    /\ trendsPc' = "loading"
    /\ trendsDom' = [trendsDom EXCEPT !.loading = "block", !.error = "none"]
    /\ alertMsg' = "none"
    /\ lastOp' = [op |-> "initStart", before |-> trendsChart]
    /\ UNCHANGED <<tzOffset, trendsCsv, allTrendsData, originalTimeRange, trendsChart>>

\* initTrendsChart after tryLoadRecentCsv('trends') returned rows
InitTrendsResolve ==
    /\ trendsPc = "loading"
    /\ LET series == BuildSeries(trendsCsv)
           range == [min |-> MathMin(Xs(series)), max |-> MathMax(Xs(series))]
       IN  /\ allTrendsData' = series
           /\ originalTimeRange' = IF Len(series) > 0 THEN Some(range) ELSE originalTimeRange
           /\ trendsDom' =
                 [trendsDom EXCEPT
                    !.startDate = IF Len(series) > 0 THEN ToISODate(range.min) ELSE @,
                    !.endDate = IF Len(series) > 0 THEN ToISODate(range.max) ELSE @,
                    !.loading = "none", !.chart = "block",
                    !.controls = "block", !.actions = "flex"]
           /\ trendsChart' = Some(NewTrendsChart(series))
    /\ trendsPc' = "ready"
    /\ alertMsg' = "none"
    /\ lastOp' = [op |-> "initResolve", before |-> trendsChart]
    /\ UNCHANGED <<tzOffset, trendsCsv>>

\* initTrendsChart after tryLoadRecentCsv('trends') threw
InitTrendsReject ==
    /\ trendsPc = "loading"
    /\ trendsPc' = "failed"
    /\ trendsDom' = [trendsDom EXCEPT !.loading = "none", !.error = "block"]
    /\ alertMsg' = "none"
    /\ lastOp' = [op |-> "initReject", before |-> trendsChart]
    /\ UNCHANGED <<tzOffset, trendsCsv, allTrendsData, originalTimeRange, trendsChart>>

\* The range controls are shown once initTrendsChart has finished; the
\* handlers themselves do not test it.
ControlsReachable == trendsPc \in {"ready", "failed"}

\* Variant: the filtered series is stored in place of the loaded one.
UpdateTimeRange_storesFiltered(startDate, endDate) ==
    /\ LET r == updateTimeRange(startDate, endDate, trendsChart, allTrendsData)
       IN  /\ trendsChart' = r.chart
           /\ alertMsg' = r.alert
           /\ allTrendsData' = IF r.alert = "none" /\ r.chart # Null
                               THEN r.chart[1].data ELSE allTrendsData
    /\ trendsDom' = [trendsDom EXCEPT !.startDate = startDate, !.endDate = endDate]
    /\ lastOp' = [op |-> "setRange", before |-> trendsChart]
    /\ UNCHANGED <<tzOffset, trendsCsv, trendsPc, originalTimeRange>>

\* The user fills the two date inputs and applies them: updateTimeRange()
UpdateTimeRange(startDate, endDate) ==
    /\ LET r == updateTimeRange(startDate, endDate, trendsChart, allTrendsData)
       IN  /\ trendsChart' = r.chart
           /\ alertMsg' = r.alert
    /\ trendsDom' = [trendsDom EXCEPT !.startDate = startDate, !.endDate = endDate]
    /\ lastOp' = [op |-> "setRange", before |-> trendsChart]
    /\ UNCHANGED <<tzOffset, trendsCsv, trendsPc, allTrendsData, originalTimeRange>>

\* Variant: the date inputs are reset, the chart is not redrawn.
ResetTimeRange_inputsOnly ==
    /\ IF originalTimeRange = Null
       THEN UNCHANGED trendsDom
       ELSE trendsDom' = [trendsDom EXCEPT
                            !.startDate = ToISODate(originalTimeRange[1].min),
                            !.endDate = ToISODate(originalTimeRange[1].max)]
    /\ alertMsg' = "none"
    /\ lastOp' = [op |-> "resetRange", before |-> trendsChart]
    /\ UNCHANGED <<tzOffset, trendsCsv, trendsPc, allTrendsData, originalTimeRange,
                   trendsChart>>

\* resetTimeRange()
ResetTimeRange ==
    /\ IF originalTimeRange = Null
       THEN UNCHANGED <<trendsChart, trendsDom>>
       ELSE /\ trendsDom' = [trendsDom EXCEPT
                               !.startDate = ToISODate(originalTimeRange[1].min),
                               !.endDate = ToISODate(originalTimeRange[1].max)]
            /\ trendsChart' = updateTrendsChart(trendsChart, allTrendsData)
    /\ alertMsg' = "none"
    /\ lastOp' = [op |-> "resetRange", before |-> trendsChart]
    /\ UNCHANGED <<tzOffset, trendsCsv, trendsPc, allTrendsData, originalTimeRange>>

\* setPresetRange(preset)
SetPresetRange(preset) ==
    /\ IF originalTimeRange = Null
       THEN /\ UNCHANGED <<trendsChart, trendsDom>>
            /\ alertMsg' = "none"
       ELSE LET endTime == originalTimeRange[1].max
                startTime == PresetStart(preset, originalTimeRange[1])
                r == updateTimeRange(ToISODate(startTime), ToISODate(endTime),
                                     trendsChart, allTrendsData)
            IN  /\ trendsDom' = [trendsDom EXCEPT !.startDate = ToISODate(startTime),
                                                  !.endDate = ToISODate(endTime)]
                /\ trendsChart' = r.chart
                /\ alertMsg' = r.alert
    /\ lastOp' = [op |-> preset, before |-> trendsChart]
    /\ UNCHANGED <<tzOffset, trendsCsv, trendsPc, allTrendsData, originalTimeRange>>

----------------------------------------------------------------------------
(* Version comparison chart                                                *)

\* A version is the sequence of its dot-separated segments: v.split('.')

\* parseVersion: v.split('.').map(n => parseInt(n) || 0)
parseVersion(v) ==
    [i \in 1..Len(v) |-> LET n == parseInt(v[i]) IN IF n = <<>> THEN 0 ELSE n[1]]

\* aVer[i] || 0
SegmentOr0(ver, i) == IF i <= Len(ver) THEN ver[i] ELSE 0

\* Variant: only the first segment is compared.
CompareFrom_firstSegment(aVer, bVer, i) == SegmentOr0(bVer, 1) - SegmentOr0(aVer, 1)

\* The comparator of the version sort, from segment i on.
RECURSIVE CompareFrom(_, _, _)
CompareFrom(aVer, bVer, i) ==
    IF i > Max2(Len(aVer), Len(bVer)) THEN 0
    ELSE LET aDiff == SegmentOr0(aVer, i)
             bDiff == SegmentOr0(bVer, i)
         IN  IF aDiff # bDiff THEN bDiff - aDiff
             ELSE CompareFrom(aVer, bVer, i + 1)

CompareVersions(a, b) == CompareFrom(parseVersion(a), parseVersion(b), 1)

\* .sort(comparator): stable
RECURSIVE InsertVersion(_, _)
InsertVersion(sorted, v) ==
    IF sorted = <<>> THEN <<v>>
    ELSE IF CompareVersions(v, Head(sorted)) < 0
         THEN <<v>> \o sorted
         ELSE <<Head(sorted)>> \o InsertVersion(Tail(sorted), v)

RECURSIVE SortVersions(_)
SortVersions(vs) ==
    IF vs = <<>> THEN <<>>
    ELSE InsertVersion(SortVersions(SubSeq(vs, 1, Len(vs) - 1)), vs[Len(vs)])

\* [...new Set(versionData.map(row => row.version))]: first occurrences,
\* in order.
RECURSIVE DistinctVersions(_)
DistinctVersions(rows) ==
    IF rows = <<>> THEN <<>>
    ELSE LET front == DistinctVersions(SubSeq(rows, 1, Len(rows) - 1))
             v == rows[Len(rows)].version
         IN  IF \E i \in 1..Len(front) : front[i] = v THEN front ELSE Append(front, v)

\* createVersionCheckboxes(): one unchecked box per version
createVersionCheckboxes(versions) ==
    [i \in 1..Len(versions) |-> [value |-> versions[i], checked |-> FALSE]]

\* initEmptyVersionChart(): no dataset, x-axis bounds not set
EmptyVersionChart == [datasets |-> <<>>, xrange |-> Null]

\* getSelectedVersions()
RECURSIVE getSelectedVersions(_)
getSelectedVersions(cbs) ==
    IF cbs = <<>> THEN <<>>
    ELSE IF Head(cbs).checked
         THEN <<Head(cbs).value>> \o getSelectedVersions(Tail(cbs))
         ELSE getSelectedVersions(Tail(cbs))

\* One dataset of updateVersionChart.
VersionDataset(version, vdata) ==
    LET OfVersion(row) == row.version = version
    IN  [label |-> version, data |-> BuildSeries(SelectSeq(vdata, OfVersion))]

RECURSIVE FlatPoints(_)
FlatPoints(datasets) ==
    IF datasets = <<>> THEN <<>>
    ELSE Head(datasets).data \o FlatPoints(Tail(datasets))

\* updateVersionChart() on the chart, the checkboxes and versionData
updateVersionChart(chart, cbs, vdata) ==
    LET selectedVersions == getSelectedVersions(cbs)
        datasets == [i \in 1..Len(selectedVersions) |->
                        VersionDataset(selectedVersions[i], vdata)]
        allDataPoints == FlatPoints(datasets)
    IN  IF chart = Null THEN chart
        ELSE IF Len(selectedVersions) = 0
        THEN Some([chart[1] EXCEPT !.datasets = <<>>])
        ELSE Some([datasets |-> datasets,
                   xrange |-> IF Len(allDataPoints) > 0
                              THEN Some([min |-> MathMin(Xs(allDataPoints)),
                                         max |-> MathMax(Xs(allDataPoints))])
                              ELSE chart[1].xrange])

SetAll(cbs, value) == [i \in 1..Len(cbs) |-> [cbs[i] EXCEPT !.checked = value]]

\* Variant: the latest two versions only.
LatestCount_two(cbs) == IF Len(cbs) < 2 THEN Len(cbs) ELSE 2

\* The number of versions selectLatestVersions checks.
LatestCount(cbs) == IF Len(cbs) < 3 THEN Len(cbs) ELSE 3

\* Variant: the boxes are cleared and the chart is left as it was.
deselectAllVersions_noUpdate(chart, cbs, vdata) ==
    [checkboxes |-> SetAll(cbs, FALSE), chart |-> chart]

\* deselectAllVersions() as a function of the chart and the checkboxes
deselectAllVersions(chart, cbs, vdata) ==
    LET cleared == SetAll(cbs, FALSE)
    IN  [checkboxes |-> cleared,
         chart |-> IF chart # Null THEN updateVersionChart(chart, cleared, vdata)
                   ELSE chart]

\* selectLatestVersions()
selectLatestVersions(chart, cbs, vdata) ==
    LET d == deselectAllVersions(chart, cbs, vdata)
        checked == [i \in 1..Len(cbs) |->
                       IF i <= LatestCount(cbs)
                       THEN [d.checkboxes[i] EXCEPT !.checked = TRUE]
                       ELSE d.checkboxes[i]]
    IN  [checkboxes |-> checked,
         chart |-> IF d.chart # Null /\ Len(vdata) > 0
                   THEN updateVersionChart(d.chart, checked, vdata)
                   ELSE d.chart]

\* Variant: the button creates the chart when there is none.
selectAllVersions_createsChart(chart, cbs, vdata) ==
    LET checked == SetAll(cbs, TRUE)
    IN  [checkboxes |-> checked,
         chart |-> updateVersionChart(IF chart = Null THEN Some(EmptyVersionChart)
                                      ELSE chart, checked, vdata)]

\* selectAllVersions()
selectAllVersions(chart, cbs, vdata) ==
    LET checked == SetAll(cbs, TRUE)
    IN  [checkboxes |-> checked,
         chart |-> IF chart # Null THEN updateVersionChart(chart, checked, vdata)
                   ELSE chart]

\* Variant: one version is taken to be enough.
EnoughVersions_one(versions) == ~(Len(versions) < 1)

\* The comparison view needs at least two versions.
EnoughVersions(versions) == ~(Len(versions) < 2)

\* initVersionChart up to its await
InitVersionStart ==
    /\ versionPc = "start"
    /\ versionPc' = "loading"
    /\ versionDom' = [versionDom EXCEPT !.loading = "block", !.error = "none"]
    /\ lastVersionOp' = "initStart"
    /\ UNCHANGED <<versionCsv, versionData, availableVersions, checkboxes,
                   versionChart, versionLog>>

\* initVersionChart after tryLoadRecentCsv('versions') returned rows
InitVersionResolve ==
    /\ versionPc = "loading"
    /\ LET versions == SortVersions(DistinctVersions(versionCsv)) IN
       /\ versionData' = versionCsv
       /\ availableVersions' = versions
       /\ IF ~EnoughVersions(versions)
          THEN /\ versionLog' = "Not enough versions for comparison"
               /\ versionDom' = [versionDom EXCEPT !.section = "none"]
               /\ versionPc' = "hidden"
               /\ UNCHANGED <<checkboxes, versionChart>>
          ELSE LET r == selectLatestVersions(Some(EmptyVersionChart),
                                             createVersionCheckboxes(versions),
                                             versionCsv)
               IN  /\ versionDom' = [versionDom EXCEPT !.loading = "none",
                                                       !.controls = "block",
                                                       !.chart = "block",
                                                       !.actions = "flex"]
                   /\ checkboxes' = r.checkboxes
                   /\ versionChart' = r.chart
                   /\ versionPc' = "ready"
                   /\ UNCHANGED versionLog
    /\ lastVersionOp' = "initResolve"
    /\ UNCHANGED versionCsv

\* initVersionChart after tryLoadRecentCsv('versions') threw
InitVersionReject ==
    /\ versionPc = "loading"
    /\ versionPc' = "failed"
    /\ versionDom' = [versionDom EXCEPT !.loading = "none", !.section = "none"]
    /\ versionLog' = "Failed to load version data"
    /\ lastVersionOp' = "initReject"
    /\ UNCHANGED <<versionCsv, versionData, availableVersions, checkboxes, versionChart>>

\* The 'latest 3' button: selectLatestVersions()
SelectLatestVersions ==
    /\ LET r == selectLatestVersions(versionChart, checkboxes, versionData)
       IN  checkboxes' = r.checkboxes /\ versionChart' = r.chart
    /\ lastVersionOp' = "selectLatest"
    /\ UNCHANGED <<versionCsv, versionPc, versionData, availableVersions,
                   versionDom, versionLog>>

\* The 'select all' button: selectAllVersions()
SelectAllVersions ==
    /\ LET r == selectAllVersions(versionChart, checkboxes, versionData)
       IN  checkboxes' = r.checkboxes /\ versionChart' = r.chart
    /\ lastVersionOp' = "selectAll"
    /\ UNCHANGED <<versionCsv, versionPc, versionData, availableVersions,
                   versionDom, versionLog>>

\* The 'deselect all' button: deselectAllVersions()
DeselectAllVersions ==
    /\ LET r == deselectAllVersions(versionChart, checkboxes, versionData)
       IN  checkboxes' = r.checkboxes /\ versionChart' = r.chart
    /\ lastVersionOp' = "deselectAll"
    /\ UNCHANGED <<versionCsv, versionPc, versionData, availableVersions,
                   versionDom, versionLog>>

\* A click on the checkbox of the i-th version. The page markup that wires
\* the checkboxes is not part of the script: the click flips the box and
\* the dataset list is derived again, as for the three buttons.
ToggleVersion(i) ==
    /\ i \in 1..Len(checkboxes)
    /\ LET toggled == [checkboxes EXCEPT ![i].checked = ~checkboxes[i].checked]
       IN  /\ checkboxes' = toggled
           /\ versionChart' = updateVersionChart(versionChart, toggled, versionData)
    /\ lastVersionOp' = "toggle"
    /\ UNCHANGED <<versionCsv, versionPc, versionData, availableVersions,
                   versionDom, versionLog>>

----------------------------------------------------------------------------
(* Installer and country pie charts                                        *)

\* new Chart(ctx, {type: 'pie', ...}): the labels and the parsed counts
NewPieChart(data, labelKey) ==
    [labels |-> [i \in 1..Len(data) |-> data[i][labelKey]],
     data   |-> [i \in 1..Len(data) |-> parseInt(data[i].download_count)]]

\* The 'show chart' statements of a pie chart initialization.
PieShown(dom, data) ==
    [dom EXCEPT !.chart = "block", !.actions = "flex", !.count = Len(data),
                !.loading = "none"]

\* Variant: the catch block leaves the loading indicator as it is.
PieCatch_keepLoading(dom) == [dom EXCEPT !.error = "block"]

\* The catch block of a pie chart initialization.
PieCatch(dom) == [dom EXCEPT !.error = "block", !.loading = "none"]

\* initInstallerChart after tryLoadRecentCsv('installer') returned rows
InitInstallerResolve ==
    /\ installerPc = "loading"
    /\ IF Len(installerCsv) > 0
       THEN /\ installerChart' = Some(NewPieChart(installerCsv, "installer_name"))
            /\ installerDom' = PieShown(installerDom, installerCsv)
            /\ installerPc' = "ready"
       ELSE \* throw new Error('No installer data available')
            /\ installerDom' = PieCatch(installerDom)
            /\ installerPc' = "failed"
            /\ UNCHANGED installerChart
    /\ UNCHANGED <<installerCsv, countryCsv, countryPc, countryChart, countryDom>>

\* initInstallerChart after tryLoadRecentCsv('installer') threw
InitInstallerReject ==
    /\ installerPc = "loading"
    /\ installerDom' = PieCatch(installerDom)
    /\ installerPc' = "failed"
    /\ UNCHANGED <<installerCsv, installerChart, countryCsv, countryPc, countryChart,
                   countryDom>>

\* Variant: the chart object is stored in the installer chart's global.
InitCountryResolve_installerGlobal ==
    /\ countryPc = "loading"
    /\ IF Len(countryCsv) > 0
       THEN /\ installerChart' = Some(NewPieChart(countryCsv, "country_code"))
            /\ countryDom' = PieShown(countryDom, countryCsv)
            /\ countryPc' = "ready"
       ELSE /\ countryDom' = PieCatch(countryDom)
            /\ countryPc' = "failed"
            /\ UNCHANGED installerChart
    /\ UNCHANGED <<countryCsv, countryChart, installerCsv, installerPc, installerDom>>

\* initCountryChart after tryLoadRecentCsv('country') returned rows
InitCountryResolve ==
    /\ countryPc = "loading"
    /\ IF Len(countryCsv) > 0
       THEN /\ countryChart' = Some(NewPieChart(countryCsv, "country_code"))
            /\ countryDom' = PieShown(countryDom, countryCsv)
            /\ countryPc' = "ready"
       ELSE \* throw new Error('No country data available')
            /\ countryDom' = PieCatch(countryDom)
            /\ countryPc' = "failed"
            /\ UNCHANGED countryChart
    /\ UNCHANGED <<countryCsv, installerCsv, installerPc, installerChart, installerDom>>

\* initCountryChart after tryLoadRecentCsv('country') threw
InitCountryReject ==
    /\ countryPc = "loading"
    /\ countryDom' = PieCatch(countryDom)
    /\ countryPc' = "failed"
    /\ UNCHANGED <<countryCsv, countryChart, installerCsv, installerPc, installerChart,
                   installerDom>>

\* The DOMContentLoaded listener: the four initializations are called one
\* after the other and each runs up to its await.
DOMContentLoaded ==
    /\ InitTrendsStart
    /\ InitVersionStart
    /\ installerPc = "start"
    /\ installerPc' = "loading"
    /\ countryPc = "start"
    /\ countryPc' = "loading"
    /\ UNCHANGED <<installerCsv, installerChart, installerDom,
                   countryCsv, countryChart, countryDom>>

----------------------------------------------------------------------------
(* Data preview and download                                               *)

\* The handlers of three feeds load their CSV again; the trends handlers
\* use allTrendsData. A load is started by a preview button, by a download
\* button of the page, or by the download button of the preview modal
\* ("modal"), which calls the feed's download handler.
LoadKinds == {"versions", "installer", "country"} \X {"preview", "download", "modal"}
NoLoads == [k \in LoadKinds |-> 0]

RECURSIVE SumOver(_, _)
SumOver(f, S) ==
    IF S = {} THEN 0
    ELSE LET k == CHOOSE x \in S : TRUE IN f[k] + SumOver(f, S \ {k})

\* What a load of the feed resolves with.
FeedCsv(feed) ==
    CASE feed = "trends" -> trendsCsv
      [] feed = "versions" -> versionCsv
      [] feed = "installer" -> installerCsv
      [] feed = "country" -> countryCsv

\* What one tryLoadRecentCsv call of a handler can resolve with: the rows
\* of the feed's latest file or, when the fetch of that file fails this
\* time, the rows of the timestamped file tried next (an earlier export:
\* the same rows without the last day's).
FeedAnswers(feed) ==
    LET latest == FeedCsv(feed)
    IN  {latest, SubSeq(latest, 1, Len(latest) - 1)}

\* The 'no data' test at the top of a handler; the installer and country
\* handlers have none.
NoDataGuard(feed) ==
    CASE feed = "trends" -> Len(allTrendsData) = 0
      [] feed = "versions" -> Len(versionData) = 0
      [] OTHER -> FALSE

\* convertTrendsDataToCSV, convertVersionDataToCSV, convertInstallerDataToCSV
\* and convertCountryDataToCSV: the header line and the data lines; the
\* version text is empty when there is no row.
ConvertToCSV(feed, data) ==
    CASE feed = "trends" ->
            [header |-> <<"download_date", "daily_downloads">>,
             rows |-> [i \in 1..Len(data) |-> <<ToISODate(data[i].x), data[i].y>>]]
      [] feed = "versions" ->
            [header |-> IF Len(data) = 0 THEN <<>>
                        ELSE <<"download_date", "version", "daily_downloads">>,
             rows |-> [i \in 1..Len(data) |->
                         <<data[i].download_date, data[i].version, data[i].daily_downloads>>]]
      [] feed = "installer" ->
            [header |-> <<"installer_name", "download_count", "percentage">>,
             rows |-> [i \in 1..Len(data) |->
                         <<data[i].installer_name, data[i].download_count,
                           data[i].percentage>>]]
      [] feed = "country" ->
            [header |-> <<"country_code", "download_count", "percentage">>,
             rows |-> [i \in 1..Len(data) |->
                         <<data[i].country_code, data[i].download_count,
                           data[i].percentage>>]]

\* preview<Feed>Data() and download<Feed>Data() up to the load they start:
\* the modal, the file, the loads in flight, the alert and the step they
\* leave.
ExportHandler(feed, purpose, modal) ==
    IF NoDataGuard(feed)
    THEN [modal |-> modal, file |-> Null, loads |-> pendingLoads,
          alert |-> "No data available",
          step |-> [op |-> "notice", feed |-> feed, purpose |-> purpose, shown |-> Null]]
    ELSE IF feed = "trends"
    THEN LET content == [feed |-> feed, csv |-> ConvertToCSV(feed, allTrendsData)]
         IN  [modal |-> IF purpose = "preview" THEN Some(content) ELSE modal,
              file |-> IF purpose = "preview" THEN Null ELSE Some(content),
              loads |-> pendingLoads,
              alert |-> "none",
              step |-> [op |-> IF purpose = "preview" THEN "previewed" ELSE "downloaded",
                        feed |-> feed, purpose |-> purpose, shown |-> Null]]
    ELSE [modal |-> modal, file |-> Null,
          loads |-> [pendingLoads EXCEPT ![<<feed, purpose>>] = @ + 1],
          alert |-> "none",
          step |-> [op |-> "started", feed |-> feed, purpose |-> purpose,
                    shown |-> Null]]

ExportFrame ==
    UNCHANGED <<tzOffset, trendsCsv, trendsPc, allTrendsData, originalTimeRange,
                trendsChart, trendsDom, lastOp, focus>>

\* The preview or the download button of a feed is clicked.
ExportData(feed, purpose) ==
    /\ trendsPc # "start"
    /\ SumOver(pendingLoads, LoadKinds) < MaxPending
    /\ LET r == ExportHandler(feed, purpose, previewModal)
       IN  /\ previewModal' = r.modal
           /\ downloadedFile' = r.file
           /\ pendingLoads' = r.loads
           /\ alertMsg' = r.alert
           /\ lastExport' = r.step
    /\ ExportFrame

\* The load a handler started resolves: .then(data => ...)
ExportResolve(feed, purpose) ==
    /\ <<feed, purpose>> \in LoadKinds
    /\ pendingLoads[<<feed, purpose>>] > 0
    /\ pendingLoads' = [pendingLoads EXCEPT ![<<feed, purpose>>] = @ - 1]
    /\ \E data \in FeedAnswers(feed) :
          LET content == [feed |-> feed, csv |-> ConvertToCSV(feed, data)]
          IN  IF purpose = "preview"
              THEN /\ previewModal' = Some(content)
                   /\ downloadedFile' = Null
                   /\ lastExport' = [op |-> "previewed", feed |-> feed,
                                     purpose |-> purpose, shown |-> Null]
              ELSE /\ downloadedFile' = Some(content)
                   /\ lastExport' = [op |-> "downloaded", feed |-> feed,
                                     purpose |-> purpose, shown |-> Null]
                   /\ UNCHANGED previewModal
    /\ alertMsg' = "none"
    /\ ExportFrame

\* The load a handler started is rejected: .catch(error => alert(...))
ExportReject(feed, purpose) ==
    /\ <<feed, purpose>> \in LoadKinds
    /\ pendingLoads[<<feed, purpose>>] > 0
    /\ pendingLoads' = [pendingLoads EXCEPT ![<<feed, purpose>>] = @ - 1]
    /\ alertMsg' = "Failed"
    /\ downloadedFile' = Null
    /\ lastExport' = [op |-> "failed", feed |-> feed, purpose |-> purpose, shown |-> Null]
    /\ UNCHANGED previewModal
    /\ ExportFrame

\* The modal's download button: downloadCallback(), then closeDataPreview().
\* The step keeps what the modal was showing when the button was clicked.
DownloadFromPreview ==
    /\ previewModal # Null
    /\ SumOver(pendingLoads, LoadKinds) < MaxPending
    /\ LET r == ExportHandler(previewModal[1].feed, "modal", Null)
       IN  /\ previewModal' = Null
           /\ downloadedFile' = r.file
           /\ pendingLoads' = r.loads
           /\ alertMsg' = r.alert
           /\ lastExport' = [r.step EXCEPT !.shown = Some(previewModal[1].csv)]
    /\ ExportFrame

\* closeDataPreview()
CloseDataPreview ==
    /\ previewModal # Null
    /\ previewModal' = Null
    /\ downloadedFile' = Null
    /\ lastExport' = [op |-> "closed", feed |-> previewModal[1].feed, purpose |-> "preview",
                       shown |-> Null]
    /\ UNCHANGED <<pendingLoads, alertMsg>>
    /\ ExportFrame

----------------------------------------------------------------------------
(* Values of the globals and of the DOM before DOMContentLoaded            *)

TrendsIdle ==
    /\ trendsPc = "start"
    /\ allTrendsData = <<>>
    /\ originalTimeRange = Null
    /\ trendsChart = Null
    /\ trendsDom = [loading |-> "initial", error |-> "initial", chart |-> "initial",
                    controls |-> "initial", actions |-> "initial",
                    startDate |-> NoDate, endDate |-> NoDate]
    /\ alertMsg = "none"
    /\ lastOp = NoOp

VersionIdle ==
    /\ versionPc = "start"
    /\ versionData = <<>>
    /\ availableVersions = <<>>
    /\ checkboxes = <<>>
    /\ versionChart = Null
    /\ versionDom = [loading |-> "initial", error |-> "initial", chart |-> "initial",
                     controls |-> "initial", actions |-> "initial", section |-> "initial"]
    /\ versionLog = "none"
    /\ lastVersionOp = "none"

LoaderIdle ==
    /\ availableCsvFiles = <<>>
    /\ outcome = [f \in FileNames |-> "untried"]
    /\ ld = NoCall

PieDomIdle == [loading |-> "initial", error |-> "initial", chart |-> "initial",
               actions |-> "initial", count |-> 0]

InstallerIdle ==
    /\ installerPc = "start"
    /\ installerChart = Null
    /\ installerDom = PieDomIdle

CountryIdle ==
    /\ countryPc = "start"
    /\ countryChart = Null
    /\ countryDom = PieDomIdle

ExportIdle ==
    /\ pendingLoads = NoLoads
    /\ previewModal = Null
    /\ downloadedFile = Null
    /\ lastExport = NoExport

\* No pie chart on the page, no preview or download handler in use and no
\* CSV text under observation.
PieExportIdle ==
    /\ focus = "none"
    /\ csvText = <<>>
    /\ csvData = Null
    /\ trendsTooltip = Null
    /\ installerCsv = <<>>
    /\ InstallerIdle
    /\ countryCsv = <<>>
    /\ CountryIdle
    /\ ExportIdle

----------------------------------------------------------------------------
(* Specification of one tryLoadRecentCsv call                              *)

\* Directory listings: no file name appears twice.
Listings ==
    UNION { { s \in [1..n -> FileNames] : \A i, j \in 1..n : i # j => s[i] # s[j] }
            : n \in 0..MaxFiles }

InitLoad ==
    /\ availableCsvFiles \in Listings
    /\ outcome = [f \in FileNames |-> "untried"]
    /\ ld = NoCall
    /\ tzOffset = 0
    /\ trendsCsv = <<>>
    /\ TrendsIdle
    /\ versionCsv = <<>>
    /\ VersionIdle
    /\ PieExportIdle

NextLoad ==
    \/ \E pattern \in Feeds : StartLoad(pattern) /\ UNCHANGED <<trendsVars, versionVars, pieVars, exportVars, parseVars, trendsTooltip>>
    \/ LoadLatest /\ UNCHANGED <<trendsVars, versionVars, pieVars, exportVars, parseVars, trendsTooltip>>
    \/ LoadNextFile /\ UNCHANGED <<trendsVars, versionVars, pieVars, exportVars, parseVars, trendsTooltip>>

SpecLoad == InitLoad /\ [][NextLoad]_vars

----------------------------------------------------------------------------
(* Claims about the loader                                                 *)

FeedPrefix(pattern) ==
    CASE pattern = "trends"    -> "download_by_date_"
      [] pattern = "versions"  -> "download_by_date_all_versions_"
      [] pattern = "installer" -> "installer_stats_30d_"
      [] pattern = "country"   -> "download_by_country_30d_"

Range(s) == { s[i] : i \in 1..Len(s) }

\* The feed's timestamped files that are listed.
Timestamped(pattern) ==
    { f \in Range(availableCsvFiles) : f.prefix = FeedPrefix(pattern) /\ f.stamp > 0 }

\* The ordered candidate list: the 'latest' file, then the timestamped
\* files, the newest first.
Candidates(pattern) ==
    LET T == Timestamped(pattern)
        n == Cardinality(T)
        desc == CHOOSE s \in [1..n -> T] :
                    \A i, j \in 1..n : i < j => s[i].stamp > s[j].stamp
    IN  <<[prefix |-> FeedPrefix(pattern), stamp |-> 0]>> \o desc

IsPrefix(s, t) == Len(s) <= Len(t) /\ \A i \in 1..Len(s) : s[i] = t[i]

\* C1: the fetches of a call are a prefix of the candidate list (latest,
\* then timestamped files newest first), without repetition; every fetch
\* but the last one failed; a call that returned has stopped at the first
\* successful candidate and returned that candidate's rows; a call still
\* running or failed has seen only failures.
THM_C1 ==
    ld.pc # "idle" =>
        LET cand == Candidates(ld.pattern)
            n == Len(ld.fetched)
        IN  /\ IsPrefix(ld.fetched, cand)
            /\ \A i, j \in 1..n : i # j => ld.fetched[i] # ld.fetched[j]
            /\ \A i \in 1..(n - 1) : outcome[ld.fetched[i]] = "fail"
            /\ ld.pc = "done" =>
                   /\ n >= 1
                   /\ outcome[ld.fetched[n]] = "ok"
                   /\ ld.result = <<FileContent(ld.fetched[n])>>
            /\ ld.pc # "done" =>
                   /\ \A i \in 1..n : outcome[ld.fetched[i]] = "fail"
                   /\ ld.result = <<>>
            /\ ld.pc = "failed" => ld.fetched = cand

\* A call returned the second timestamped file after the 'latest' file and
\* the newest timestamped file failed, with files of another feed listed.
WIT_C1 ==
    /\ ld.pc = "done"
    /\ Len(ld.fetched) = 3
    /\ ld.fetched[2].stamp > ld.fetched[3].stamp
    /\ availableCsvFiles[1].stamp < availableCsvFiles[2].stamp
    /\ \E i \in 1..Len(availableCsvFiles) :
          availableCsvFiles[i].prefix # FeedPrefix(ld.pattern)

\* C2: a finished call has failed exactly when every candidate of the feed
\* was fetched and failed; otherwise it returned rows.
THM_C2 ==
    ld.pc \in {"done", "failed"} =>
        LET cand == Candidates(ld.pattern)
            allFail == \A i \in 1..Len(cand) : outcome[cand[i]] = "fail"
        IN  /\ (ld.pc = "failed") <=> allFail
            /\ (ld.pc = "done") <=> (ld.result # <<>>)

\* The call failed after the 'latest' file and two timestamped files failed.
WIT_C2 ==
    /\ ld.pc = "failed"
    /\ Len(ld.fetched) = 3

----------------------------------------------------------------------------
(* Specification of the trends chart and its range controls                *)

\* Days of 2024 before each month, and the day number of a 2024 date.
DaysBeforeMonth == <<0, 31, 60, 91, 121, 152, 182, 213, 244, 274, 305, 335>>
CalendarDay(month, day) == DaysBeforeMonth[month] + day - 1

\* 2024-01-01, 2024-06-01, 2024-07-01
DayChoices == {CalendarDay(1, 1), CalendarDay(6, 1), CalendarDay(7, 1)}
TrendRowChoices ==
    [download_date : DayChoices, daily_downloads : {"7"}]
        \cup {[download_date |-> BadDate, daily_downloads |-> "abc"]}
TzOffsets == {-5, 0, 14}
\* What the user enters in a date input: nothing, 2024-01-01, 2024-05-31
\* or 2024-06-01.
DateInputs == {NoDate, CalendarDay(1, 1), CalendarDay(5, 31), CalendarDay(6, 1)}

SeqsUpTo(S, n) == UNION { [1..k -> S] : k \in 0..n }

InitRange ==
    /\ LoaderIdle
    /\ tzOffset \in TzOffsets
    /\ trendsCsv \in SeqsUpTo(TrendRowChoices, MaxRows)
    /\ TrendsIdle
    /\ versionCsv = <<>>
    /\ VersionIdle
    /\ PieExportIdle

NextRange ==
    \/ InitTrendsStart /\ UNCHANGED <<loaderVars, versionVars, pieVars, exportVars, parseVars, trendsTooltip>>
    \/ InitTrendsResolve /\ UNCHANGED <<loaderVars, versionVars, pieVars, exportVars, parseVars, trendsTooltip>>
    \/ InitTrendsReject /\ UNCHANGED <<loaderVars, versionVars, pieVars, exportVars, parseVars, trendsTooltip>>
    \/ \E startDate, endDate \in DateInputs :
          ControlsReachable /\ UpdateTimeRange(startDate, endDate) /\ UNCHANGED <<loaderVars, versionVars, pieVars, exportVars, parseVars, trendsTooltip>>
    \/ ControlsReachable /\ ResetTimeRange /\ UNCHANGED <<loaderVars, versionVars, pieVars, exportVars, parseVars, trendsTooltip>>
    \/ \E preset \in PresetNames :
          ControlsReachable /\ SetPresetRange(preset) /\ UNCHANGED <<loaderVars, versionVars, pieVars, exportVars, parseVars, trendsTooltip>>

SpecRange == InitRange /\ [][NextRange]_vars

----------------------------------------------------------------------------
(* Claims about the range controls                                         *)

\* The calendar day a point is dated.
DayOfPoint(point) == point.x \div SecPerDay

\* The loaded points dated between two days, both included.
PointsBetween(startDate, endDate) ==
    LET Keep(point) == DayOfPoint(point) >= startDate /\ DayOfPoint(point) <= endDate
    IN  SelectSeq(allTrendsData, Keep)

\* C3: a setRange with a missing date, or with a start date not before the
\* end date (equal dates included), reports an error and leaves the chart
\* (series, axis bounds, tick formatter) as it was.
CEX_C3 ==
    (/\ lastOp.op = "setRange"
     /\ \/ trendsDom.startDate = NoDate
        \/ trendsDom.endDate = NoDate
        \/ trendsDom.startDate >= trendsDom.endDate)
    => /\ alertMsg # "none"
       /\ trendsChart = lastOp.before

\* C4: a setRange whose window of days holds no loaded point reports 'no
\* data in range' and leaves the chart as it was.
CEX_C4 ==
    (/\ lastOp.op = "setRange"
     /\ trendsDom.startDate # NoDate
     /\ trendsDom.endDate # NoDate
     /\ trendsDom.startDate <= trendsDom.endDate
     /\ PointsBetween(trendsDom.startDate, trendsDom.endDate) = <<>>)
    => /\ alertMsg = "No data available for the selected time range"
       /\ trendsChart = lastOp.before

\* C5: after an accepted setRange the displayed series is exactly the
\* loaded points dated from the start date to the end date, both included.
CEX_C5 ==
    (/\ lastOp.op = "setRange"
     /\ alertMsg = "none"
     /\ trendsChart # Null)
    => trendsChart[1].data = PointsBetween(trendsDom.startDate, trendsDom.endDate)

\* C6: after resetRange on a loaded feed the chart shows the full loaded
\* series and its x-axis bounds are the extent stored at load time.
THM_C6 ==
    (lastOp.op = "resetRange" /\ trendsPc = "ready") =>
        /\ trendsChart # Null
        /\ trendsChart[1].data = allTrendsData
        /\ Len(allTrendsData) > 0 =>
              /\ originalTimeRange # Null
              /\ trendsChart[1].xmin = originalTimeRange[1].min
              /\ trendsChart[1].xmax = originalTimeRange[1].max
              /\ originalTimeRange[1].min = allTrendsData[1].x
              /\ originalTimeRange[1].max = allTrendsData[Len(allTrendsData)].x

\* resetRange ran on a chart that a range change had narrowed.
WIT_C6 ==
    /\ lastOp.op = "resetRange"
    /\ lastOp.before # Null
    /\ Len(lastOp.before[1].data) < Len(allTrendsData)
    /\ lastOp.before[1].xmin > originalTimeRange[1].min
    /\ trendsChart[1].data = allTrendsData

\* C7: setPresetRange sets the range to start = max(originalMax - duration,
\* originalMin) and end = originalMax with durations of 30, 90, 180 and 365
\* days, and the chart then shows the loaded points from start on; from
\* 2024-01-01..2024-06-01 the preset 1month gives 2024-05-02..2024-06-01.
THM_C7 ==
    (lastOp.op \in PresetNames /\ originalTimeRange # Null) =>
        LET omin == originalTimeRange[1].min
            omax == originalTimeRange[1].max
            days == CASE lastOp.op = "1month" -> 30
                      [] lastOp.op = "3months" -> 90
                      [] lastOp.op = "6months" -> 180
                      [] lastOp.op = "1year" -> 365
            start == IF omax - days * SecPerDay > omin
                     THEN omax - days * SecPerDay ELSE omin
            Shown(point) == point.x >= start /\ point.x <= omax
        IN  /\ trendsDom.startDate * SecPerDay = start
            /\ trendsDom.endDate * SecPerDay = omax
            /\ alertMsg = "none"
            /\ trendsChart[1].data = SelectSeq(allTrendsData, Shown)
            /\ trendsChart[1].xmax = omax
            /\ (/\ lastOp.op = "1month"
                /\ omin = CalendarDay(1, 1) * SecPerDay
                /\ omax = CalendarDay(6, 1) * SecPerDay)
               => /\ trendsDom.startDate = CalendarDay(5, 2)
                  /\ trendsDom.endDate = CalendarDay(6, 1)

\* The preset 1month was applied to data from 2024-01-01 to 2024-06-01.
WIT_C7 ==
    /\ lastOp.op = "1month"
    /\ originalTimeRange # Null
    /\ originalTimeRange[1].min = CalendarDay(1, 1) * SecPerDay
    /\ originalTimeRange[1].max = CalendarDay(6, 1) * SecPerDay
    /\ trendsDom.startDate = CalendarDay(5, 2)
    /\ Len(trendsChart[1].data) < Len(allTrendsData)

\* The label format the displayed series calls for.
SpanFormat(series) ==
    LET span == IF series = <<>> THEN 0
                ELSE series[Len(series)].x - series[1].x
    IN  IF span > 180 * 86400 THEN "month+year"
        ELSE IF span > 30 * 86400 THEN "month+day"
        ELSE "month+day+year"

\* C8: whenever the trends chart exists, its tick labels use the format of
\* the span of the series it displays: more than 180 days month+year, more
\* than 30 days month+day, month+day+year otherwise.
THM_C8 ==
    trendsChart # Null =>
        formatDate(trendsChart[1].ticks) = SpanFormat(trendsChart[1].data)

\* An accepted setRange changed the label format from the one at load time.
WIT_C8 ==
    /\ lastOp.op = "setRange"
    /\ alertMsg = "none"
    /\ trendsChart # Null
    /\ formatDate(trendsChart[1].ticks) = "month+day"
    /\ formatDate(TickRange(allTrendsData)) = "month+year"

\* C21: once the trends load has given at least one point, whatever
\* setRange, setPresetRange and resetRange calls follow, the displayed
\* series is not empty, it is a run of consecutive points of the loaded
\* sorted series, and the x-axis minimum and maximum are the smallest and
\* the largest timestamp of the displayed series.
THM_C21 ==
    (trendsPc = "ready" /\ Len(allTrendsData) > 0) =>
        LET shown == trendsChart[1].data
        IN  /\ Len(shown) > 0
            /\ \E k \in 0..(Len(allTrendsData) - Len(shown)) :
                   shown = SubSeq(allTrendsData, k + 1, k + Len(shown))
            /\ \A i \in 1..Len(shown) :
                   trendsChart[1].xmin <= shown[i].x /\ shown[i].x <= trendsChart[1].xmax
            /\ \E i \in 1..Len(shown) : shown[i].x = trendsChart[1].xmin
            /\ \E i \in 1..Len(shown) : shown[i].x = trendsChart[1].xmax

\* Of three loaded points, an accepted setRange left the middle one alone
\* on display.
WIT_C21 ==
    /\ lastOp.op = "setRange"
    /\ alertMsg = "none"
    /\ Len(allTrendsData) = 3
    /\ trendsChart # Null
    /\ trendsChart[1].data = <<allTrendsData[2]>>
    /\ allTrendsData[1].x < allTrendsData[2].x
    /\ allTrendsData[2].x < allTrendsData[3].x

----------------------------------------------------------------------------
(* Specification of the version comparison chart                           *)

\* Versions 2.0, 1.10, 1.2 and 1.9.1 on 2024-01-01, and 2.0 on 2024-01-02 too.
VersionChoices == {<<"2", "0">>, <<"1", "10">>, <<"1", "2">>, <<"1", "9", "1">>}
VersionRowChoices ==
    [download_date : {0}, version : VersionChoices, daily_downloads : {"7"}]
        \cup {[download_date |-> 1, version |-> <<"2", "0">>, daily_downloads |-> "3"]}

InitVersion ==
    /\ LoaderIdle
    /\ tzOffset = 0
    /\ trendsCsv = <<>>
    /\ TrendsIdle
    /\ versionCsv \in SeqsUpTo(VersionRowChoices, MaxVRows)
    /\ VersionIdle
    /\ PieExportIdle

NextVersion ==
    \/ InitVersionStart /\ UNCHANGED <<loaderVars, trendsVars, pieVars, exportVars, parseVars, trendsTooltip>>
    \/ InitVersionResolve /\ UNCHANGED <<loaderVars, trendsVars, pieVars, exportVars, parseVars, trendsTooltip>>
    \/ InitVersionReject /\ UNCHANGED <<loaderVars, trendsVars, pieVars, exportVars, parseVars, trendsTooltip>>
    \/ SelectLatestVersions /\ UNCHANGED <<loaderVars, trendsVars, pieVars, exportVars, parseVars, trendsTooltip>>
    \/ SelectAllVersions /\ UNCHANGED <<loaderVars, trendsVars, pieVars, exportVars, parseVars, trendsTooltip>>
    \/ DeselectAllVersions /\ UNCHANGED <<loaderVars, trendsVars, pieVars, exportVars, parseVars, trendsTooltip>>

SpecVersion == InitVersion /\ [][NextVersion]_vars

----------------------------------------------------------------------------
(* Claims about the version comparison chart                               *)

\* The distinct version keys of the loaded rows.
VersionKeys == { versionCsv[i].version : i \in 1..Len(versionCsv) }

\* C9: once the versions feed has loaded with fewer than 2 distinct
\* versions, the comparison section is hidden, no chart and no checkbox
\* exists, no error is shown and the initialization ended without failure,
\* whatever selection buttons are used afterwards.
THM_C9 ==
    (versionPc \notin {"start", "loading", "failed"} /\ Cardinality(VersionKeys) < 2) =>
        /\ versionPc = "hidden"
        /\ versionDom.section = "none"
        /\ versionChart = Null
        /\ checkboxes = <<>>
        /\ versionDom.error = "none"
        /\ versionLog = "Not enough versions for comparison"

\* The feed loaded two rows of a single version and a selection button was
\* used afterwards.
WIT_C9 ==
    /\ versionPc = "hidden"
    /\ Cardinality(VersionKeys) = 1
    /\ Len(versionData) = 2
    /\ lastVersionOp = "selectAll"

\* C10: right after a load with k >= 2 distinct versions, the checked boxes
\* are the first min(3, k) versions of the ordering, and the chart holds
\* one dataset for each of them, and no other.
THM_C10 ==
    (lastVersionOp = "initResolve" /\ Cardinality(VersionKeys) >= 2) =>
        LET k == Cardinality(VersionKeys)
            n == IF k < 3 THEN k ELSE 3
            Checked == { i \in 1..Len(checkboxes) : checkboxes[i].checked }
            ds == versionChart[1].datasets
        IN  /\ versionPc = "ready"
            /\ Len(availableVersions) = k
            /\ Len(checkboxes) = k
            /\ \A i \in 1..k : checkboxes[i].value = availableVersions[i]
            /\ Checked = 1..n
            /\ Len(ds) = n
            /\ \A i \in 1..n : ds[i].label = availableVersions[i]

\* The feed loaded with four versions: three are selected, one is not.
WIT_C10 ==
    /\ lastVersionOp = "initResolve"
    /\ versionPc = "ready"
    /\ Len(availableVersions) = 4
    /\ Len(versionChart[1].datasets) = 3
    /\ ~checkboxes[4].checked

----------------------------------------------------------------------------
(* Specification of the version selection: buttons and single checkboxes   *)

\* One row for each of the versions 2.0, 1.10, 1.2 and 1.9.1.
SelectRowChoices ==
    [download_date : {0}, version : VersionChoices, daily_downloads : {"7"}]

InitSelect ==
    /\ LoaderIdle
    /\ tzOffset = 0
    /\ trendsCsv = <<>>
    /\ TrendsIdle
    /\ versionCsv \in SeqsUpTo(SelectRowChoices, MaxVRows)
    /\ VersionIdle
    /\ PieExportIdle

NextSelect ==
    \/ InitVersionStart /\ UNCHANGED <<loaderVars, trendsVars, pieVars, exportVars, parseVars, trendsTooltip>>
    \/ InitVersionResolve /\ UNCHANGED <<loaderVars, trendsVars, pieVars, exportVars, parseVars, trendsTooltip>>
    \/ InitVersionReject /\ UNCHANGED <<loaderVars, trendsVars, pieVars, exportVars, parseVars, trendsTooltip>>
    \/ SelectLatestVersions /\ UNCHANGED <<loaderVars, trendsVars, pieVars, exportVars, parseVars, trendsTooltip>>
    \/ SelectAllVersions /\ UNCHANGED <<loaderVars, trendsVars, pieVars, exportVars, parseVars, trendsTooltip>>
    \/ DeselectAllVersions /\ UNCHANGED <<loaderVars, trendsVars, pieVars, exportVars, parseVars, trendsTooltip>>
    \/ \E i \in 1..MaxVRows : ToggleVersion(i) /\ UNCHANGED <<loaderVars, trendsVars, pieVars, exportVars, parseVars, trendsTooltip>>

SpecSelect == InitSelect /\ [][NextSelect]_vars

\* The positions of the checked boxes.
CheckedBoxes == { i \in 1..Len(checkboxes) : checkboxes[i].checked }

----------------------------------------------------------------------------
(* Specification of the page load: the four initializations side by side   *)

\* What each feed's load resolves with, if it resolves.
PageTrendsCsvs ==
    {<<>>,
     <<[download_date |-> 0, daily_downloads |-> "7"]>>,
     <<[download_date |-> 1, daily_downloads |-> "7"],
       [download_date |-> BadDate, daily_downloads |-> "abc"]>>}
PageVersionCsvs ==
    {<<>>,
     <<[download_date |-> 0, version |-> <<"2", "0">>, daily_downloads |-> "7"]>>,
     <<[download_date |-> 0, version |-> <<"1", "10">>, daily_downloads |-> "7"],
       [download_date |-> 0, version |-> <<"2", "0">>, daily_downloads |-> "3"]>>}
PageInstallerCsvs ==
    {<<>>,
     <<[installer_name |-> "pip", download_count |-> "7", percentage |-> "100"]>>}
PageCountryCsvs ==
    {<<>>,
     <<[country_code |-> "US", download_count |-> "3", percentage |-> "100"]>>}

InitPage ==
    /\ LoaderIdle
    /\ tzOffset = 0
    /\ trendsCsv \in PageTrendsCsvs
    /\ TrendsIdle
    /\ versionCsv \in PageVersionCsvs
    /\ VersionIdle
    /\ installerCsv \in PageInstallerCsvs
    /\ InstallerIdle
    /\ countryCsv \in PageCountryCsvs
    /\ CountryIdle
    /\ ExportIdle
    /\ focus = "none"
    /\ csvText = <<>>
    /\ csvData = Null
    /\ trendsTooltip = Null

NextPage ==
    \/ DOMContentLoaded /\ UNCHANGED <<loaderVars, exportVars, parseVars, trendsTooltip>>
    \/ InitTrendsResolve /\ UNCHANGED <<loaderVars, versionVars, pieVars, exportVars, parseVars, trendsTooltip>>
    \/ InitTrendsReject /\ UNCHANGED <<loaderVars, versionVars, pieVars, exportVars, parseVars, trendsTooltip>>
    \/ InitVersionResolve /\ UNCHANGED <<loaderVars, trendsVars, pieVars, exportVars, parseVars, trendsTooltip>>
    \/ InitVersionReject /\ UNCHANGED <<loaderVars, trendsVars, pieVars, exportVars, parseVars, trendsTooltip>>
    \/ InitInstallerResolve /\ UNCHANGED <<loaderVars, trendsVars, versionVars, exportVars, parseVars, trendsTooltip>>
    \/ InitInstallerReject /\ UNCHANGED <<loaderVars, trendsVars, versionVars, exportVars, parseVars, trendsTooltip>>
    \/ InitCountryResolve /\ UNCHANGED <<loaderVars, trendsVars, versionVars, exportVars, parseVars, trendsTooltip>>
    \/ InitCountryReject /\ UNCHANGED <<loaderVars, trendsVars, versionVars, exportVars, parseVars, trendsTooltip>>

SpecPage == InitPage /\ [][NextPage]_vars

\* C12 as stated: every feed whose load failed shows its error message,
\* hides its loading indicator and has no chart.
CEX_C12 ==
    /\ trendsPc = "failed" =>
          trendsDom.error = "block" /\ trendsDom.loading = "none" /\ trendsChart = Null
    /\ versionPc = "failed" =>
          versionDom.error = "block" /\ versionDom.loading = "none" /\ versionChart = Null
    /\ installerPc = "failed" =>
          /\ installerDom.error = "block"
          /\ installerDom.loading = "none"
          /\ installerChart = Null
    /\ countryPc = "failed" =>
          countryDom.error = "block" /\ countryDom.loading = "none" /\ countryChart = Null

\* C12, amended: a trends, installer or country feed whose load failed
\* shows its error message, hides its loading indicator and has no chart; a
\* versions feed whose load failed hides its loading indicator and its
\* whole section, has no chart and shows no error message.
THM_C12 ==
    /\ trendsPc = "failed" =>
          trendsDom.error = "block" /\ trendsDom.loading = "none" /\ trendsChart = Null
    /\ versionPc = "failed" =>
          /\ versionDom.section = "none"
          /\ versionDom.error = "none"
          /\ versionDom.loading = "none"
          /\ versionChart = Null
    /\ installerPc = "failed" =>
          /\ installerDom.error = "block"
          /\ installerDom.loading = "none"
          /\ installerChart = Null
    /\ countryPc = "failed" =>
          countryDom.error = "block" /\ countryDom.loading = "none" /\ countryChart = Null

\* All four loads failed, the pie feeds not for lack of rows.
WIT_C12 ==
    /\ trendsPc = "failed"
    /\ versionPc = "failed"
    /\ installerPc = "failed"
    /\ countryPc = "failed"
    /\ Len(installerCsv) > 0
    /\ Len(countryCsv) > 0

\* The state of each feed as its own initialization leaves it.
TrendsAlone ==
    CASE trendsPc = "ready" ->
            /\ allTrendsData = BuildSeries(trendsCsv)
            /\ trendsChart = Some(NewTrendsChart(allTrendsData))
            /\ trendsDom.loading = "none" /\ trendsDom.error = "none"
            /\ trendsDom.chart = "block"
      [] trendsPc = "failed" ->
            /\ allTrendsData = <<>> /\ trendsChart = Null /\ originalTimeRange = Null
            /\ trendsDom.loading = "none" /\ trendsDom.error = "block"
            /\ trendsDom.chart = "initial"
      [] trendsPc = "loading" ->
            /\ allTrendsData = <<>> /\ trendsChart = Null /\ originalTimeRange = Null
            /\ trendsDom.loading = "block" /\ trendsDom.error = "none"
      [] OTHER -> TrendsIdle

VersionAlone ==
    CASE versionPc = "ready" ->
            /\ versionData = versionCsv /\ versionChart # Null
            /\ Len(checkboxes) = Cardinality(VersionKeys)
            /\ Cardinality(VersionKeys) >= 2
            /\ versionDom.loading = "none" /\ versionDom.chart = "block"
      [] versionPc = "hidden" ->
            /\ versionData = versionCsv /\ versionChart = Null /\ checkboxes = <<>>
            /\ Cardinality(VersionKeys) < 2
            /\ versionDom.section = "none"
      [] versionPc = "failed" ->
            /\ versionData = <<>> /\ versionChart = Null /\ checkboxes = <<>>
            /\ versionDom.loading = "none" /\ versionDom.section = "none"
      [] versionPc = "loading" ->
            /\ versionData = <<>> /\ versionChart = Null /\ checkboxes = <<>>
            /\ versionDom.loading = "block" /\ versionDom.section = "initial"
      [] OTHER -> VersionIdle

PieAlone(pc, csv, chart, dom, labelKey) ==
    CASE pc = "ready" ->
            /\ Len(csv) > 0
            /\ chart # Null
            /\ chart[1].labels = [i \in 1..Len(csv) |-> csv[i][labelKey]]
            /\ dom = [loading |-> "none", error |-> "initial", chart |-> "block",
                      actions |-> "flex", count |-> Len(csv)]
      [] pc = "failed" ->
            /\ chart = Null
            /\ dom = [loading |-> "none", error |-> "block", chart |-> "initial",
                      actions |-> "initial", count |-> 0]
      [] OTHER -> chart = Null /\ dom = PieDomIdle

\* C13: however the four initializations interleave after their awaits and
\* whatever each load's outcome is, every initialization ends in its
\* success or in its own failure handling, and the state of each feed is
\* the one its own outcome gives: no feed's failure or success shows in
\* another feed's state, also when all four fail.
THM_C13 ==
    /\ trendsPc \in {"start", "loading", "ready", "failed"}
    /\ versionPc \in {"start", "loading", "ready", "hidden", "failed"}
    /\ installerPc \in {"start", "loading", "ready", "failed"}
    /\ countryPc \in {"start", "loading", "ready", "failed"}
    /\ TrendsAlone
    /\ VersionAlone
    /\ PieAlone(installerPc, installerCsv, installerChart, installerDom, "installer_name")
    /\ PieAlone(countryPc, countryCsv, countryChart, countryDom, "country_code")

\* The trends and installer loads failed, the versions and country loads
\* succeeded and drew their charts.
WIT_C13 ==
    /\ trendsPc = "failed"
    /\ versionPc = "ready"
    /\ installerPc = "failed"
    /\ Len(installerCsv) > 0
    /\ countryPc = "ready"

----------------------------------------------------------------------------
(* Specification of the series builder on arbitrary rows                   *)

\* Rows of 2024-01-01 and 2024-01-02 with two counts, a row with a date
\* that does not parse, a row with a count that does not parse, and a row
\* with a count of 400 digits; each of version 2.0 or 1.10.
BuildCells ==
    {<<0, "3">>, <<0, "7">>, <<1, "3">>, <<BadDate, "7">>, <<1, "abc">>,
     <<0, Digits400>>}
BuildRowChoices ==
    { [download_date |-> c[1], version |-> v, daily_downloads |-> c[2]] :
        c \in BuildCells, v \in {<<"2", "0">>, <<"1", "10">>} }

\* The trends CSV holds the same dates and counts, without the version.
WithoutVersion(rows) ==
    [i \in 1..Len(rows) |-> [download_date |-> rows[i].download_date,
                             daily_downloads |-> rows[i].daily_downloads]]

InitBuild ==
    /\ LoaderIdle
    /\ tzOffset = 0
    /\ versionCsv \in SeqsUpTo(BuildRowChoices, MaxBuildRows)
    /\ trendsCsv = WithoutVersion(versionCsv)
    /\ TrendsIdle
    /\ VersionIdle
    /\ PieExportIdle

\* The trends series is built first, the version datasets after it.
NextBuild ==
    \/ InitTrendsStart /\ UNCHANGED <<loaderVars, versionVars, pieVars, exportVars, parseVars, trendsTooltip>>
    \/ InitTrendsResolve /\ UNCHANGED <<loaderVars, versionVars, pieVars, exportVars, parseVars, trendsTooltip>>
    \/ /\ trendsPc = "ready"
       /\ InitVersionStart
       /\ UNCHANGED <<loaderVars, trendsVars, pieVars, exportVars, parseVars, trendsTooltip>>
    \/ InitVersionResolve /\ UNCHANGED <<loaderVars, trendsVars, pieVars, exportVars, parseVars, trendsTooltip>>

SpecBuild == InitBuild /\ [][NextBuild]_vars

\* The rows of a CSV that have a date and a count that parse, by position.
Parsing(rows) ==
    { i \in 1..Len(rows) : parseDate(rows[i].download_date) # <<>>
                           /\ parseInt(rows[i].daily_downloads) # <<>> }

FiniteInt(n) == n \in Int /\ n # PosInf /\ n # NegInf

\* Every point of the series is finite, there are no more points than rows
\* and exactly one point for each row that parses.
WellBuilt(series, rows) ==
    /\ Len(series) <= Len(rows)
    /\ Len(series) = Cardinality(Parsing(rows))
    /\ \A k \in 1..Len(series) : FiniteInt(series[k].x) /\ FiniteInt(series[k].y)

\* The rows of one version.
RowsOf(version) == SelectSeq(versionCsv, LAMBDA row : row.version = version)

\* C14 as stated: the trends series and every version's series have at
\* most as many points as there are rows, every point has a finite
\* timestamp and a finite integer value, and a row whose date or count does
\* not parse gives no point.
CEX_C14 ==
    /\ trendsPc = "ready" => WellBuilt(allTrendsData, trendsCsv)
    /\ versionChart # Null =>
          \A j \in 1..Len(versionChart[1].datasets) :
              LET d == versionChart[1].datasets[j]
              IN  WellBuilt(d.data, RowsOf(d.label))

\* The place of row i among the points: after the rows of an earlier date
\* and after the earlier rows of the same date.
PlaceOf(rows, i) ==
    1 + Cardinality({ j \in Parsing(rows) :
                        \/ rows[j].download_date < rows[i].download_date
                        \/ rows[j].download_date = rows[i].download_date /\ j < i })

\* The series holds the point of every parsing row at the row's place.
OrderedStable(series, rows) ==
    /\ Len(series) = Cardinality(Parsing(rows))
    /\ \A i \in Parsing(rows) :
           series[PlaceOf(rows, i)] = [x |-> parseDate(rows[i].download_date)[1],
                                       y |-> parseInt(rows[i].daily_downloads)[1]]
    /\ \A k \in 1..(Len(series) - 1) : series[k].x <= series[k + 1].x

\* C15: whatever the order of the rows, the trends series and every
\* version's series are in non-decreasing order of timestamp, points of the
\* same timestamp keep the order of their rows, and every parsing row has
\* its own point (rows of the same date are not merged).
THM_C15 ==
    /\ trendsPc = "ready" => OrderedStable(allTrendsData, trendsCsv)
    /\ versionChart # Null =>
          \A j \in 1..Len(versionChart[1].datasets) :
              LET d == versionChart[1].datasets[j]
              IN  OrderedStable(d.data, RowsOf(d.label))

\* Rows given latest first, two of them of the same date and version: the
\* two stay in their order, ahead of the later date.
WIT_C15 ==
    /\ versionPc = "ready"
    /\ Len(versionCsv) = 3
    /\ versionCsv[1].download_date = 1
    /\ versionCsv[1].version = <<"1", "10">>
    /\ allTrendsData =
          <<[x |-> 0, y |-> 7], [x |-> 0, y |-> 3], [x |-> SecPerDay, y |-> 3]>>
    /\ \E j \in 1..Len(versionChart[1].datasets) :
          versionChart[1].datasets[j].data = <<[x |-> 0, y |-> 7], [x |-> 0, y |-> 3]>>

----------------------------------------------------------------------------
(* Specification of the version ordering                                   *)

\* 2.0, 1.10, 1.2, 1.9.1, and three versions equal on every segment:
\* 1.0, 1.0.0 and 1.rc.
OrderVersionChoices ==
    VersionChoices \cup {<<"1", "0">>, <<"1", "0", "0">>, <<"1", "rc">>}
OrderRowChoices ==
    [download_date : {0}, version : OrderVersionChoices, daily_downloads : {"7"}]

InitOrder ==
    /\ LoaderIdle
    /\ tzOffset = 0
    /\ trendsCsv = <<>>
    /\ TrendsIdle
    /\ versionCsv \in SeqsUpTo(OrderRowChoices, MaxVRows)
    /\ VersionIdle
    /\ PieExportIdle

NextOrder ==
    \/ InitVersionStart /\ UNCHANGED <<loaderVars, trendsVars, pieVars, exportVars, parseVars, trendsTooltip>>
    \/ InitVersionResolve /\ UNCHANGED <<loaderVars, trendsVars, pieVars, exportVars, parseVars, trendsTooltip>>
    \/ InitVersionReject /\ UNCHANGED <<loaderVars, trendsVars, pieVars, exportVars, parseVars, trendsTooltip>>

SpecOrder == InitOrder /\ [][NextOrder]_vars

\* The integer a segment is read as: 0 when it is not a number.
SegmentValue(text) ==
    CASE text = "0" -> 0 [] text = "1" -> 1 [] text = "2" -> 2 [] text = "9" -> 9
      [] text = "10" -> 10 [] OTHER -> 0

\* The three segments of a version, a missing one counting 0.
Segments(v) == [i \in 1..3 |-> IF i <= Len(v) THEN SegmentValue(v[i]) ELSE 0]

\* a is a later version than b.
Later(a, b) ==
    \E i \in 1..3 : /\ Segments(a)[i] > Segments(b)[i]
                    /\ \A j \in 1..(i - 1) : Segments(a)[j] = Segments(b)[j]

\* The row in which a version is first met.
Discovery(v) ==
    CHOOSE i \in 1..Len(versionCsv) :
        /\ versionCsv[i].version = v
        /\ \A j \in 1..(i - 1) : versionCsv[j].version # v

\* C16: after a load, the version keys are each listed once, a later
\* semantic version (segments split on '.', read as integers, a non-numeric
\* or missing segment counting 0) never after an earlier one, and keys that
\* are equal on every segment in the order in which the rows first mention
\* them; the keys 2.0, 1.10, 1.2, 1.9.1 are ordered 2.0, 1.10, 1.9.1, 1.2.
THM_C16 ==
    lastVersionOp = "initResolve" =>
        /\ { availableVersions[i] : i \in 1..Len(availableVersions) } = VersionKeys
        /\ Len(availableVersions) = Cardinality(VersionKeys)
        /\ \A i, j \in 1..Len(availableVersions) :
              i < j =>
                 /\ ~Later(availableVersions[j], availableVersions[i])
                 /\ Segments(availableVersions[i]) = Segments(availableVersions[j]) =>
                       Discovery(availableVersions[i]) < Discovery(availableVersions[j])
        /\ [i \in 1..Len(versionCsv) |-> versionCsv[i].version]
              = <<<<"2", "0">>, <<"1", "10">>, <<"1", "2">>, <<"1", "9", "1">>>> =>
           availableVersions = <<<<"2", "0">>, <<"1", "10">>, <<"1", "9", "1">>, <<"1", "2">>>>

\* The rows name 1.0.0, 1.2, 1.rc and 1.0 in this order: 1.2 comes first,
\* the three others follow in the order of the rows.
WIT_C16 ==
    /\ lastVersionOp = "initResolve"
    /\ [i \in 1..Len(versionCsv) |-> versionCsv[i].version]
          = <<<<"1", "0", "0">>, <<"1", "2">>, <<"1", "rc">>, <<"1", "0">>>>
    /\ availableVersions = <<<<"1", "2">>, <<"1", "0", "0">>, <<"1", "rc">>, <<"1", "0">>>>

----------------------------------------------------------------------------
(* Specification of loadCsvData on a fetched text                          *)

\* Header lines: the trends header, the same with white space and a
\* carriage return, a header of unknown columns, the installer header.
CsvHeaders ==
    {<<"download_date", ",", "daily_downloads">>,
     <<"download_date", ",", " ", "daily_downloads", "\r">>,
     <<"name", ",", "count">>,
     <<"installer_name", ",", "download_count", ",", "percentage">>}

\* Data lines: two values; three values; two values in white space; one
\* value; a value and an empty one; an empty line; a line of white space.
CsvLines ==
    {<<"2024-01-01", ",", "50">>,
     <<"2024-01-01", ",", "50", ",", "extra">>,
     <<" ", "2024-01-01", ",", " ", "50", "\r">>,
     <<"2024-01-01">>,
     <<"2024-01-01", ",">>,
     <<>>,
     <<" ">>}

InitParse ==
    /\ LoaderIdle
    /\ tzOffset = 0
    /\ trendsCsv = <<>>
    /\ TrendsIdle
    /\ versionCsv = <<>>
    /\ VersionIdle
    /\ installerCsv = <<>>
    /\ InstallerIdle
    /\ countryCsv = <<>>
    /\ CountryIdle
    /\ ExportIdle
    /\ focus = "none"
    /\ csvText \in { <<h>> \o body : h \in CsvHeaders, body \in SeqsUpTo(CsvLines, MaxLines) }
    /\ csvData = Null
    /\ trendsTooltip = Null

NextParse ==
    LoadCsvData /\ UNCHANGED <<loaderVars, trendsVars, versionVars, pieVars, exportVars, trendsTooltip>>

SpecParse == InitParse /\ [][NextParse]_vars

\* The number of comma-separated fields of a line.
FieldCount(line) == 1 + Cardinality({ i \in 1..Len(line) : line[i] = "," })

\* The data lines that are not blank and have as many fields as the header.
MatchingLines ==
    { i \in 2..Len(csvText) : /\ Trim(csvText[i]) # <<>>
                              /\ FieldCount(csvText[i]) = FieldCount(csvText[1]) }

\* The row of trimmed header keys and trimmed values of data line i.
RowOfLine(i) == MakeRow(SplitComma(csvText[1]), SplitComma(Trim(csvText[i])))

\* The row has a non-empty value under both keys.
HasBoth(row, a, b) ==
    /\ {<<a>>, <<b>>} \subseteq DOMAIN row
    /\ row[<<a>>] # <<>>
    /\ row[<<b>>] # <<>>

\* The matching lines whose row is of one of the three known shapes.
ShapedLines ==
    { i \in MatchingLines :
        \/ HasBoth(RowOfLine(i), "installer_name", "download_count")
        \/ HasBoth(RowOfLine(i), "country_code", "download_count")
        \/ HasBoth(RowOfLine(i), "download_date", "daily_downloads") }

\* The parsed rows are the rows of the given lines, in the order of the lines.
RowsAreOf(lineSet) ==
    /\ Len(csvData[1]) = Cardinality(lineSet)
    /\ \A i \in lineSet :
          csvData[1][Cardinality({ j \in lineSet : j <= i })] = RowOfLine(i)

\* C17 as stated: the parsed rows are exactly the rows of the non-blank
\* data lines that have as many fields as the header; every other line
\* gives no row.
CEX_C17 ==
    csvData # Null => RowsAreOf(MatchingLines)

\* C17, amended: a non-blank data line whose field count differs from the
\* header's gives no row (it is neither cut nor filled up); a line with the
\* header's field count gives the row of trimmed header keys and trimmed
\* values if that row has non-empty values for installer_name and
\* download_count, for country_code and download_count, or for
\* download_date and daily_downloads, and no row otherwise; the line
\* "2024-01-01,50,extra" under a two-column header gives no row.
THM_C17 ==
    csvData # Null =>
        /\ RowsAreOf(ShapedLines)
        /\ csvText = <<<<"download_date", ",", "daily_downloads">>,
                       <<"2024-01-01", ",", "50", ",", "extra">>>> => csvData[1] = <<>>
        /\ csvText = <<<<"download_date", ",", " ", "daily_downloads", "\r">>,
                       <<" ", "2024-01-01", ",", " ", "50", "\r">>>> =>
              csvData[1] = <<(<<"download_date">> :> <<"2024-01-01">>)
                                @@ (<<"daily_downloads">> :> <<"50">>)>>

\* Under the trends header, a line of two values gave a row, a line of
\* three values and a line with an empty count gave none.
WIT_C17 ==
    /\ csvData # Null
    /\ csvText = <<<<"download_date", ",", "daily_downloads">>,
                   <<"2024-01-01", ",", "50", ",", "extra">>,
                   <<"2024-01-01", ",", "50">>,
                   <<"2024-01-01", ",">>>>
    /\ Len(csvData[1]) = 1

----------------------------------------------------------------------------
(* Specification of the trends tooltip                                     *)

\* Rows of 2024-01-01, 2024-01-02 and 2024-01-03 with 0, 3 or 7 downloads.
TooltipRowChoices == [download_date : 0..2, daily_downloads : {"0", "3", "7"}]

InitTooltip ==
    /\ LoaderIdle
    /\ tzOffset = 0
    /\ trendsCsv \in SeqsUpTo(TooltipRowChoices, MaxRows)
    /\ TrendsIdle
    /\ versionCsv = <<>>
    /\ VersionIdle
    /\ PieExportIdle

NextTooltip ==
    \/ InitTrendsStart
          /\ UNCHANGED <<loaderVars, versionVars, pieVars, exportVars, parseVars, trendsTooltip>>
    \/ InitTrendsResolve
          /\ UNCHANGED <<loaderVars, versionVars, pieVars, exportVars, parseVars, trendsTooltip>>
    \/ \E i \in 1..MaxRows :
          HoverTrendsPoint(i)
             /\ UNCHANGED <<loaderVars, versionVars, pieVars, exportVars, parseVars>>

SpecTooltip == InitTooltip /\ [][NextTooltip]_vars

\* C19 as stated: the tooltip of a point after the first shows the change
\* against the point before, (v[i] - v[i-1]) / v[i-1] * 100, rounded to one
\* decimal, and shows 'no previous-day comparison' when v[i-1] is 0.
CEX_C19 ==
    (trendsTooltip # Null /\ trendsTooltip[1].index > 1) =>
        LET i == trendsTooltip[1].index
            v == [k \in 1..Len(trendsChart[1].data) |-> trendsChart[1].data[k].y]
            label == trendsTooltip[1].afterLabel
        IN  /\ label # Null
            /\ IF v[i - 1] = 0
               THEN label[1].text = "no previous-day comparison"
               ELSE /\ label[1].text = "percent"
                    /\ LET t == label[1].tenths
                           twice == 2 * (1000 * (v[i] - v[i - 1]) - t * v[i - 1])
                       IN  twice <= v[i - 1] /\ -twice <= v[i - 1]

----------------------------------------------------------------------------
(* Specification of the preview and download handlers of one feed          *)

\* The requests of one feed are answered, and its buttons are used; the
\* loads of the three other feeds stay in flight.
InitExport ==
    /\ LoaderIdle
    /\ tzOffset = 0
    /\ trendsCsv \in PageTrendsCsvs
    /\ TrendsIdle
    /\ versionCsv \in PageVersionCsvs
    /\ VersionIdle
    /\ installerCsv \in PageInstallerCsvs
    /\ InstallerIdle
    /\ countryCsv \in PageCountryCsvs
    /\ CountryIdle
    /\ ExportIdle
    /\ focus \in Feeds
    /\ csvText = <<>>
    /\ csvData = Null
    /\ trendsTooltip = Null

NextExport ==
    \/ DOMContentLoaded /\ UNCHANGED <<loaderVars, exportVars, parseVars, trendsTooltip>>
    \/ /\ focus = "trends"
       /\ InitTrendsResolve \/ InitTrendsReject
       /\ UNCHANGED <<loaderVars, versionVars, pieVars, exportVars, parseVars, trendsTooltip>>
    \/ /\ focus = "versions"
       /\ InitVersionResolve \/ InitVersionReject
       /\ UNCHANGED <<loaderVars, trendsVars, pieVars, exportVars, parseVars, trendsTooltip>>
    \/ /\ focus = "installer"
       /\ InitInstallerResolve \/ InitInstallerReject
       /\ UNCHANGED <<loaderVars, trendsVars, versionVars, exportVars, parseVars, trendsTooltip>>
    \/ /\ focus = "country"
       /\ InitCountryResolve \/ InitCountryReject
       /\ UNCHANGED <<loaderVars, trendsVars, versionVars, exportVars, parseVars, trendsTooltip>>
    \/ \E purpose \in {"preview", "download", "modal"} :
          /\ \/ purpose # "modal" /\ ExportData(focus, purpose)
             \/ ExportResolve(focus, purpose)
             \/ ExportReject(focus, purpose)
          /\ UNCHANGED <<loaderVars, versionVars, pieVars, parseVars, trendsTooltip>>
    \/ DownloadFromPreview
          /\ UNCHANGED <<loaderVars, versionVars, pieVars, parseVars, trendsTooltip>>
    \/ CloseDataPreview
          /\ UNCHANGED <<loaderVars, versionVars, pieVars, parseVars, trendsTooltip>>

SpecExport == InitExport /\ [][NextExport]_vars

\* The feed has data loaded: its load is neither in flight nor failed, and
\* it gave at least one row.
FeedLoaded(feed) ==
    CASE feed = "trends" -> trendsPc = "ready" /\ Len(allTrendsData) > 0
      [] feed = "versions" -> versionPc \in {"ready", "hidden"} /\ Len(versionData) > 0
      [] feed = "installer" -> installerPc = "ready"
      [] feed = "country" -> countryPc = "ready"
      [] OTHER -> FALSE

\* C18 as stated: a preview or download handler that ends while its feed
\* has no data loaded has shown a notice, saved no file and shown no
\* preview.
CEX_C18 ==
    (lastExport.op \in {"notice", "previewed", "downloaded", "failed"}
        /\ ~FeedLoaded(lastExport.feed)) =>
        /\ lastExport.op \in {"notice", "failed"}
        /\ alertMsg # "none"
        /\ downloadedFile = Null

\* The tryLoadRecentCsv calls of a feed in flight: the one of its
\* initialization and those of its preview and download handlers.
InFlight(feed) ==
    (IF \/ feed = "trends" /\ trendsPc = "loading"
        \/ feed = "versions" /\ versionPc = "loading"
        \/ feed = "installer" /\ installerPc = "loading"
        \/ feed = "country" /\ countryPc = "loading"
     THEN 1 ELSE 0)
    + SumOver(pendingLoads, { k \in LoadKinds : k[1] = feed })

\* C20 as stated: no feed ever has two tryLoadRecentCsv calls in flight.
CEX_C20 ==
    \A feed \in Feeds : InFlight(feed) <= 1

\* C24: when the download button of the preview modal of the versions, the
\* installer or the country feed has started its load and that load
\* delivers the file, the file holds the rows the modal was showing when
\* the button was clicked, whatever each fetch answered.
CEX_C24 ==
    [][(/\ lastExport.op = "started"
        /\ lastExport.purpose = "modal"
        /\ pendingLoads[<<lastExport.feed, "modal">>] = 1
        /\ lastExport'.op = "downloaded"
        /\ lastExport'.purpose = "modal"
        /\ lastExport'.feed = lastExport.feed)
       => downloadedFile' = Some([feed |-> lastExport.feed,
                                  csv |-> lastExport.shown[1]])]_vars

----------------------------------------------------------------------------
(* Specification of the controls of the trends and the version feed, used  *)
(* at any time after DOMContentLoaded: before the feed's load has          *)
(* finished, after it has failed and after it has succeeded                *)

OpsTrendsCsvs ==
    {<<>>,
     <<[download_date |-> BadDate, daily_downloads |-> "abc"]>>,
     <<[download_date |-> CalendarDay(6, 1), daily_downloads |-> "7"]>>,
     <<[download_date |-> CalendarDay(6, 1), daily_downloads |-> "7"],
       [download_date |-> CalendarDay(1, 1), daily_downloads |-> "7"],
       [download_date |-> CalendarDay(7, 1), daily_downloads |-> "7"]>>}

InitOps ==
    /\ LoaderIdle
    /\ tzOffset = 0
    /\ trendsCsv \in OpsTrendsCsvs
    /\ TrendsIdle
    /\ versionCsv \in PageVersionCsvs
    /\ VersionIdle
    /\ installerCsv = <<>>
    /\ InstallerIdle
    /\ countryCsv = <<>>
    /\ CountryIdle
    /\ ExportIdle
    /\ focus \in {"trends", "versions"}
    /\ csvText = <<>>
    /\ csvData = Null
    /\ trendsTooltip = Null

NextOps ==
    \/ DOMContentLoaded /\ UNCHANGED <<loaderVars, exportVars, parseVars, trendsTooltip>>
    \/ /\ focus = "trends"
       /\ trendsPc # "start"
       /\ \/ InitTrendsResolve
          \/ InitTrendsReject
          \/ \E startDate, endDate \in DateInputs : UpdateTimeRange(startDate, endDate)
          \/ ResetTimeRange
          \/ \E preset \in PresetNames : SetPresetRange(preset)
       /\ UNCHANGED <<loaderVars, versionVars, pieVars, exportVars, parseVars, trendsTooltip>>
    \/ /\ focus = "versions"
       /\ versionPc # "start"
       /\ \/ InitVersionResolve
          \/ InitVersionReject
          \/ SelectLatestVersions
          \/ SelectAllVersions
          \/ DeselectAllVersions
       /\ UNCHANGED <<loaderVars, trendsVars, pieVars, exportVars, parseVars, trendsTooltip>>
    \/ \E purpose \in {"preview", "download", "modal"} :
          /\ \/ purpose # "modal" /\ ExportData(focus, purpose)
             \/ ExportResolve(focus, purpose)
             \/ ExportReject(focus, purpose)
          /\ UNCHANGED <<loaderVars, versionVars, pieVars, parseVars, trendsTooltip>>
    \/ DownloadFromPreview
          /\ UNCHANGED <<loaderVars, versionVars, pieVars, parseVars, trendsTooltip>>
    \/ CloseDataPreview
          /\ UNCHANGED <<loaderVars, versionVars, pieVars, parseVars, trendsTooltip>>

SpecOps == InitOps /\ [][NextOps]_vars

\* C22: allTrendsData and originalTimeRange change only in the step in
\* which initTrendsChart receives its rows, versionData and
\* availableVersions only in the step in which initVersionChart receives
\* its rows: no range operation, selection operation, preview or download,
\* accepted or rejected, writes any of the four.
THM_C22 ==
    [][/\ (allTrendsData' # allTrendsData \/ originalTimeRange' # originalTimeRange)
          => (trendsPc = "loading" /\ trendsPc' = "ready")
       /\ (versionData' # versionData \/ availableVersions' # availableVersions)
          => (versionPc = "loading" /\ versionPc' \in {"ready", "hidden"})]_vars

\* An accepted setRange narrowed the display to fewer points than are
\* loaded, and the loaded series is still the one built from the CSV.
WIT_C22 ==
    /\ lastOp.op = "setRange"
    /\ alertMsg = "none"
    /\ trendsChart # Null
    /\ Len(trendsChart[1].data) < Len(allTrendsData)
    /\ allTrendsData = BuildSeries(trendsCsv)
    /\ originalTimeRange # Null


\* What initTrendsChart leaves when nothing but the page load has happened:
\* the series, its range, the chart and what is on display.
LoadedTrends ==
    LET series == BuildSeries(trendsCsv)
    IN  /\ allTrendsData = series
        /\ trendsChart = Some(NewTrendsChart(series))
        /\ originalTimeRange =
              IF Len(series) > 0
              THEN Some([min |-> MathMin(Xs(series)), max |-> MathMax(Xs(series))])
              ELSE Null
        /\ trendsDom.loading = "none" /\ trendsDom.error = "none"
        /\ trendsDom.chart = "block" /\ trendsDom.controls = "block"
        /\ trendsDom.actions = "flex"
        /\ Len(series) > 0 =>
              /\ trendsDom.startDate = ToISODate(MathMin(Xs(series)))
              /\ trendsDom.endDate = ToISODate(MathMax(Xs(series)))

\* What initVersionChart leaves when nothing but the page load has happened.
LoadedVersions ==
    LET versions == SortVersions(DistinctVersions(versionCsv))
        boxes == [i \in 1..Len(versions) |->
                     [value |-> versions[i], checked |-> i <= LatestCount(versions)]]
    IN  /\ versionData = versionCsv
        /\ availableVersions = versions
        /\ IF Len(versions) < 2
           THEN /\ checkboxes = <<>>
                /\ versionChart = Null
                /\ versionDom = [loading |-> "block", error |-> "none",
                                 chart |-> "initial", controls |-> "initial",
                                 actions |-> "initial", section |-> "none"]
           ELSE /\ checkboxes = boxes
                /\ versionChart = updateVersionChart(Some(EmptyVersionChart), boxes,
                                                     versionCsv)
                /\ versionDom = [loading |-> "none", error |-> "none",
                                 chart |-> "block", controls |-> "block",
                                 actions |-> "flex", section |-> "initial"]

\* C23: while the load of the trends or of the version feed is in flight,
\* and after it has failed, no range or selection operation has created a
\* chart or put a series or a checked box on display; and when the load
\* completes, the feed is in the state the page load alone gives, whatever
\* operations were invoked before. (What the user typed into the two date
\* inputs is the user's, not the operation's: a load with no point leaves
\* it there.)
THM_C23 ==
    /\ trendsPc \in {"loading", "failed"} =>
          /\ trendsChart = Null
          /\ allTrendsData = <<>>
          /\ originalTimeRange = Null
    /\ versionPc \in {"loading", "failed"} =>
          /\ versionChart = Null
          /\ checkboxes = <<>>
    /\ lastOp.op = "initResolve" => LoadedTrends
    /\ lastVersionOp = "initResolve" => LoadedVersions

\* setRange was invoked with two dates while the trends load was in flight
\* (the dates are still in the inputs), and the load has then completed
\* with no point.
WIT_C23 ==
    /\ lastOp.op = "initResolve"
    /\ trendsPc = "ready"
    /\ allTrendsData = <<>>
    /\ trendsDom.startDate # NoDate
    /\ trendsDom.endDate # NoDate

====
